---- MODULE Spec2Model ----
(***************************************************************************)
(* The agent turn engine of codex-cli (utils/agent/agent-loop.ts): one     *)
(* AgentLoop instance, the run() invocations made on it, the model stream  *)
(* each run consumes, the deferred delivery and flush timers, and the      *)
(* cancel() / terminate() calls of the UI.                                 *)
(***************************************************************************)
EXTENDS Integers, Sequences, FiniteSets, TLC

\* ---------------------------------------------------------------- bounds
\* The events the environment contributes to one behaviour: run(), cancel()
\* and terminate() calls of the UI, output items streamed by the model, failed
\* stream-open attempts and broken streams.
MaxEvents == 4
\* The same budget when only run() calls and the API's answers are followed
\* (SpecRetry): one run() and a fifth failed attempt fit in it.
RetryEvents == 6
\* The longest "try again in <N>s" capture of a rate-limit message.
MaxHintLen == 3

\* ------------------------------------------------------ program constants
MAX_RETRIES == 5
RATE_LIMIT_RETRY_WAIT_MS == 2500
DELIVERY_DELAY_MS == 10
FLUSH_DELAY_MS == 30

Runs == 1..MaxEvents
RespIds == 1..(MaxEvents + RetryEvents)
CallIds == 1..MaxEvents

VARIABLES
  \* --- AgentLoop instance fields
  generation,          \* this.generation
  canceled,            \* this.canceled
  terminated,          \* this.terminated
  hardAborted,         \* this.hardAbort.signal.aborted
  pendingAborts,       \* this.pendingAborts (set of call-ids)
  currentStream,       \* this.currentStream: 0 = null, r = the stream of run r
  execAbortController, \* this.execAbortController: 0 = null, else controller id
  abortedCtl,          \* exec abort controllers whose signal is aborted
  alreadyProcessed,    \* module-level alreadyProcessedResponses
  \* --- locals of each run() invocation
  pc,                  \* where run r is suspended
  thisGeneration,      \* thisGeneration
  turnInput,           \* turnInput
  staged,              \* staged: slots [item, live, epoch]; live = not yet nulled
  attempt,             \* attempt of the retry loop
  delayMs,             \* delayMs of the rate-limit backoff sleep in progress
  lastResponseId,      \* lastResponseId (0 = "")
  tool,                \* processEventsWithoutStreaming suspended in handleExecCommand
  \* --- the event loop's timers
  timers,              \* pending setTimeout callbacks, in scheduling order
  \* --- the remote model (environment)
  streamOut,           \* output items the current response of run r has announced
  streamPhase,         \* "none" | "open" | "completed"
  streamAborted,       \* runs whose current stream's controller was aborted
  nextCall, nextMsg, nextResp, nextCtl, nextRun, budget,
  \* --- the UI (environment) and what the callbacks observed
  loading,             \* last value given to on_loading
  uiLastResponseId,    \* last value given to on_last_response_id (0 = "")
  ncancel,             \* cancel() calls that found the instance not terminated
  noopCalls,           \* cancel() / terminate() calls made on a terminated instance
  callNext,            \* per call-id: the next run() to start after the call was emitted
  fenced,              \* timer callbacks that only the generation fence kept from
                       \* delivering an item staged before a cancel()
  cancelsAtStart,      \* ncancel when run r started
  termAtStart,         \* terminated when run r was called
  delivered,           \* on_item calls, in order
  loadTrue, loadFalse, \* on_loading(true) / on_loading(false) calls made by run r
  sent,                \* function_call_outputs accepted by the model, per call-id
  completedIn,         \* per response id: the run() that received its response.completed
  lastResponseIdCalls, \* per response id: the on_last_response_id calls made with it
  clearedAt,           \* nextRun when cancel() last reported the empty id (0: never)
  \* --- one processEventsWithoutStreaming(output, emitItem) call on its own
  callOutput,          \* output: the function_call items of a response
  callIndex,           \* position of the loop `for (const item of output)`
  callTurnInput,       \* its local turnInput
  callReturns,         \* what each handleFunctionCall returned, and for which item
  \* --- one canAutoApprove(command, policy, writableRoots) call on its own
  command,             \* command (argv), each string a sequence of characters
  policy,              \* policy
  patchConstrained,    \* isWritePatchConstrainedToWritablePaths of the patch in it
  parseThrew,          \* parse(command[2], env) raised on the script (127-129)
  assessment,          \* the SafetyAssessment returned, NoAssessment before the call
  patchFiles,          \* the files the patch in command names, as apply-patch lists them
  writableRoots,       \* writableRoots
  \* --- one exec() call on its own (exec.ts, sandbox/raw-exec.ts)
  execSandbox,         \* sandbox: the SandboxType the caller passed
  launched,            \* execForSandbox: "none" before the call
  promise,             \* "none" | "pending" | "resolved" | "threw" | "delegated"
  execResult,          \* the ExecResult the promise resolved to
  settledBy,           \* the place that resolved it: "argv" | "exit" | "error"
  pid,                 \* child.pid (0 = undefined)
  killed,              \* child.killed
  exited,              \* the child's exit event was emitted
  exitEvent,           \* its (code, signal)
  abortSignal,         \* "absent" | "idle" | "aborted"
  abortedAt,           \* the time abortHandler ran (NoTime before)
  signals,             \* the signals abortHandler tried to send, in order
  killDue,             \* when the SIGKILL timer is due (NoTime = not pending)
  lateSignals,         \* a signal was sent after the exit event was observed (history)
  now,                 \* the clock, in ms
  numStdoutBytes, numStderrBytes,
  hitMaxStdout, hitMaxStderr,
  stdoutChunks, stderrChunks,   \* total length of the chunks kept
  stdoutSeen, stderrSeen,       \* bytes the stream had produced when the promise settled
  dataEvents,          \* data events so far
  \* --- one handleExecCommand call on its own
  classified,          \* the SafetyAssessment of the command
  confirmMode,         \* whose getCommandConfirmation: "interactive" | "quiet"
  handlerPc,           \* "idle" | "asking" | "done" | "cancelled" | "threw"
  reviews,             \* the reviews getCommandConfirmation returned, in order
  requests,            \* requestConfirmation calls made
  executed,            \* the runs of the command: how and whether sandboxed
  outputText,          \* outputText and metadata.exit_code returned
  patchOutcome,        \* what process_patch did ("none" = not called)
  patchResult,         \* what execApplyPatch returned
  \* --- one process_patch call on its own
  engineBefore,        \* the files before the call: per path, its content or Absent
  engineFiles,         \* the files now
  engineOps,           \* the operations of the patch, in declaration order
  engineStatus,        \* "idle" | "done" | "failed"
  engineFailedAt,      \* index of the operation that failed (0 = none)
  \* --- the text input (UncontrolledTextInput)
  value,               \* value
  cursorOffset,        \* state.cursorOffset
  cursorWidth          \* state.cursorWidth

instVars == <<generation, canceled, terminated, hardAborted, pendingAborts,
              currentStream, execAbortController, abortedCtl, alreadyProcessed>>
runVars == <<pc, thisGeneration, turnInput, staged, attempt, delayMs, lastResponseId, tool>>
envVars == <<streamOut, streamPhase, streamAborted, nextCall, nextMsg, nextResp,
             nextCtl, nextRun, budget>>
obsVars == <<loading, uiLastResponseId, ncancel, noopCalls, callNext, fenced, cancelsAtStart,
             termAtStart, delivered, loadTrue, loadFalse, sent>>
respVars == <<completedIn, lastResponseIdCalls, clearedAt>>
callVars == <<callOutput, callIndex, callTurnInput, callReturns>>
approvalVars == <<command, policy, patchConstrained, parseThrew, assessment, patchFiles,
                  writableRoots>>
streamVars == <<numStdoutBytes, numStderrBytes, hitMaxStdout, hitMaxStderr,
                stdoutChunks, stderrChunks, dataEvents>>
killVars == <<killed, abortSignal, abortedAt, signals, killDue, lateSignals>>
execVars == <<execSandbox, launched, promise, execResult, settledBy, pid, exited, exitEvent,
              stdoutSeen, stderrSeen, now, killVars, streamVars>>
handlerVars == <<classified, confirmMode, handlerPc, reviews, requests, executed,
                 outputText, patchOutcome, patchResult>>
engineVars == <<engineBefore, engineFiles, engineOps, engineStatus, engineFailedAt>>
inputVars == <<value, cursorOffset, cursorWidth>>
lateVars == <<engineVars, inputVars>>
fnVars == <<callVars, approvalVars, execVars, handlerVars, lateVars>>
loopVars == <<instVars, runVars, envVars, obsVars, respVars, timers>>
vars == <<loopVars, fnVars>>

\* ------------------------------------------------------------------ items
UserInput(r) == [type |-> "input", id |-> r, output |-> ""]
Message(m) == [type |-> "message", id |-> m, output |-> ""]
FunctionCall(c) == [type |-> "function_call", id |-> c, output |-> ""]
FunctionCallOutput(c, o) == [type |-> "function_call_output", id |-> c, output |-> o]
SystemMessage(text) == [type |-> "system", id |-> 0, output |-> text]

NoTool == [call |-> 0, rest |-> <<>>, acc |-> <<>>, resp |-> 0, ctl |-> 0]

\* this.pendingAborts in iteration (insertion) order: call-ids are numbered
\* in the order the model emits them (agent-loop.ts 534)
RECURSIVE SetToSeq(_)
SetToSeq(S) ==
  IF S = {} THEN <<>>
  ELSE LET x == CHOOSE y \in S : \A z \in S : y <= z
       IN <<x>> \o SetToSeq(S \ {x})

\* a drain that synthesizes nothing for the pending ids
AbortOutputsNone(pending) == <<>>

\* the synthetic outputs run() builds from pendingAborts (agent-loop.ts 532-547)
AbortOutputs(pending) ==
  LET ids == SetToSeq(pending)
  IN [i \in 1..Len(ids) |-> FunctionCallOutput(ids[i], "aborted")]

\* ------------------------------------------------------------- the staging
\* stageItem's generation fence (agent-loop.ts 557)
StageGuard(thisGen, gen) == thisGen = gen

\* the delivery condition without its generation fence
DeliverGuardUnfenced(thisGen, gen, canc, hard) == ~canc /\ ~hard

\* the delivery timer's condition (agent-loop.ts 580-584)
DeliverGuard(thisGen, gen, canc, hard) == thisGen = gen /\ ~canc /\ ~hard

\* flush's condition for emitting the remaining staged items (949-953)
FlushGuard(thisGen, gen, canc, hard) == ~canc /\ ~hard /\ thisGen = gen

\* stageItem applied to each of its, in order: the slots appended to staged ...
StagedAfter(stg, thisGen, gen, its) ==
  IF StageGuard(thisGen, gen)
  THEN stg \o [i \in 1..Len(its) |-> [item |-> its[i], live |-> TRUE, epoch |-> ncancel]]
  ELSE stg

\* ... and the 10 ms timers scheduled for them
TimersAfter(tms, stg, r, thisGen, gen, its) ==
  IF StageGuard(thisGen, gen)
  THEN tms \o [i \in 1..Len(its) |->
                 [kind |-> "deliver", run |-> r, idx |-> Len(stg) + i,
                  delay |-> DELIVERY_DELAY_MS]]
  ELSE tms

\* setTimeout(flush, 30) (agent-loop.ts 1016)
FlushTimer(r) == [kind |-> "flush", run |-> r, idx |-> 0, delay |-> FLUSH_DELAY_MS]

\* timers that fire in any order
MayFireAnyOrder(tms, i) == TRUE

\* Timers fire in the order of their expiry: a callback scheduled earlier with
\* a delay that is not longer has expired before timers[i] does.
MayFire(tms, i) == \A j \in 1..(i - 1) : tms[j].delay > tms[i].delay

RemoveAt(q, i) == [j \in 1..(Len(q) - 1) |-> IF j < i THEN q[j] ELSE q[j + 1]]

\* --------------------------------------------------- classification of errors
\* An error is named by its kind; ErrorOf gives what the catch blocks read of
\* it: its class, its HTTP status (0: none), whether its code, type or message
\* marks a rate limit (718-721), whether it is about max_tokens (696-698) and
\* whether its code or type is invalid_request_error (699, 783-784).
RequestErrorKinds ==
  {"timeout", "connection", "server", "rate_limit", "too_many_tokens", "client",
   "client_rate_limit_text", "other"}

ApiError(status, rateLimitMark, maxTokens, invalidRequest) ==
  [class |-> "api", status |-> status, rateLimitMark |-> rateLimitMark,
   maxTokens |-> maxTokens, invalidRequest |-> invalidRequest]

ErrorOf(kind) ==
  CASE kind = "timeout" -> [ApiError(0, FALSE, FALSE, FALSE) EXCEPT !.class = "timeout"]
    [] kind = "connection" -> [ApiError(0, FALSE, FALSE, FALSE) EXCEPT !.class = "connection"]
    [] kind = "server" -> ApiError(500, FALSE, FALSE, FALSE)
    [] kind = "rate_limit" -> ApiError(429, TRUE, FALSE, FALSE)
    [] kind = "too_many_tokens" -> ApiError(400, FALSE, TRUE, TRUE)
    [] kind = "client" -> ApiError(404, FALSE, FALSE, FALSE)
    \* a 403 whose message speaks of a rate limit
    [] kind = "client_rate_limit_text" -> ApiError(403, TRUE, FALSE, FALSE)
    [] kind = "model_not_found" -> ApiError(404, FALSE, FALSE, TRUE)
    [] OTHER -> ApiError(0, FALSE, FALSE, FALSE)

\* isTimeout || isServerError || isConnectionError (665-687)
IsRetryable(kind) ==
  ErrorOf(kind).class \in {"timeout", "connection"} \/ ErrorOf(kind).status >= 500
\* isTooManyTokensError (695-699)
IsTooManyTokens(kind) == ErrorOf(kind).maxTokens /\ ErrorOf(kind).invalidRequest
\* isRateLimit (717-721)
IsRateLimit(kind) == ErrorOf(kind).status = 429 \/ ErrorOf(kind).rateLimitMark
\* a catch that knows no client error
IsClientErrorNever(kind) == FALSE

\* isClientError (778-784)
IsClientError(kind) ==
  \/ ErrorOf(kind).status >= 400 /\ ErrorOf(kind).status < 500 /\ ErrorOf(kind).status # 429
  \/ ErrorOf(kind).invalidRequest

\* an outer catch that rethrows every error
OuterCatchMessageNone(kind) == ""

\* an outer catch that surfaces every error it does not know as a network error
OuterCatchMessageCatchAll(kind) ==
  IF kind = "premature_close" THEN "premature_close" ELSE "network_error"

\* the outer catch of run() (1020-1237): the system message it surfaces, or
\* "" when it rethrows
OuterCatchMessage(kind) ==
  IF kind = "premature_close" THEN "premature_close"                        \* 1029-1054
  ELSE IF kind \in {"timeout", "connection", "server", "network"} THEN "network_error" \* 1089-1162
  ELSE IF kind = "model_not_found" THEN "rejected"                          \* 1164-1232
  ELSE ""                                                                    \* 1236

\* ------------------------------------------------- the rate-limit backoff
\* What /(?:retry|try) again in ([\d.]+)s/i captured from the error message
\* (732): a string of digits and dots, <<>> when the message has no hint.
NoHint == <<>>
HintChars == {"1", "3", "."}
Digits == {"0", "1", "2", "3", "4", "5", "6", "7", "8", "9"}
DigitVal(ch) ==
  CASE ch = "0" -> 0 [] ch = "1" -> 1 [] ch = "2" -> 2 [] ch = "3" -> 3 [] ch = "4" -> 4
    [] ch = "5" -> 5 [] ch = "6" -> 6 [] ch = "7" -> 7 [] ch = "8" -> 8 [] ch = "9" -> 9

RECURSIVE StringsUpTo(_)
StringsUpTo(n) ==
  IF n = 0 THEN {<<>>}
  ELSE LET shorter == StringsUpTo(n - 1)
       IN shorter \cup {Append(w, ch) : w \in shorter, ch \in HintChars}

\* every capture of at most MaxHintLen characters, and no hint
AllHints == StringsUpTo(MaxHintLen)
\* the hints an error carries where the delay is not what is looked at
SomeHints == {NoHint, <<"1", ".", "3">>}

\* the length of the longest prefix of str made of digits
RECURSIVE DigitRun(_)
DigitRun(str) ==
  IF str # <<>> /\ Head(str) \in Digits THEN 1 + DigitRun(Tail(str)) ELSE 0

\* the number a string of digits denotes, times scale, scale a power of ten
\* (the digits after the third decimal are below a millisecond)
RECURSIVE DigitsValue(_, _)
DigitsValue(str, scale) ==
  IF str = <<>> \/ scale = 0 THEN 0
  ELSE DigitVal(Head(str)) * scale + DigitsValue(Tail(str), scale \div 10)

NaN == -1

\* parseFloat(str) * 1000 (734): parseFloat reads the longest prefix
\* digits* [ . digits* ] holding a digit and is NaN when there is none
ParseFloatTimes1000(str) ==
  LET n == DigitRun(str)
      int == SubSeq(str, 1, n)
      afterInt == SubSeq(str, n + 1, Len(str))
      hasDot == afterInt # <<>> /\ Head(afterInt) = "."
      m == IF hasDot THEN DigitRun(Tail(afterInt)) ELSE 0
      frac == IF hasDot THEN SubSeq(Tail(afterInt), 1, m) ELSE <<>>
      \* int read most significant digit first
      intVal == IF n = 0 THEN 0 ELSE DigitsValue(int, 10 ^ (n - 1))
  IN IF n + m = 0 THEN NaN ELSE intVal * 1000 + DigitsValue(frac, 100)

\* a backoff that ignores the hint of the message
RateLimitDelayMsNoHint(att, hint) == RATE_LIMIT_RETRY_WAIT_MS * 2 ^ (att - 1)

\* delayMs of the rate-limit branch (727-738)
RateLimitDelayMs(att, hint) ==
  LET exponential == RATE_LIMIT_RETRY_WAIT_MS * 2 ^ (att - 1)
      suggested == ParseFloatTimes1000(hint)
  IN IF hint # NoHint /\ suggested # NaN THEN suggested ELSE exponential

\* a catch that retries transient and rate-limit failures without counting
RetryDecisionUnbounded(kind, att) ==
  IF IsRetryable(kind) THEN "retry"
  ELSE IF IsTooManyTokens(kind) THEN "msg:context_length"
  ELSE IF IsRateLimit(kind) THEN "sleep"
  ELSE IF IsClientError(kind) THEN "msg:rejected"
  ELSE "throw"

\* what the retry loop's catch does with a failed attempt (664-829)
RetryDecision(kind, att) ==
  IF IsRetryable(kind) /\ att < MAX_RETRIES THEN "retry"
  ELSE IF IsTooManyTokens(kind) THEN "msg:context_length"
  ELSE IF IsRateLimit(kind) THEN (IF att < MAX_RETRIES THEN "sleep" ELSE "msg:rate_limit")
  ELSE IF IsClientError(kind) THEN "msg:rejected"
  ELSE "throw"

Late(r) == pc[r] # "idle" /\ ncancel > cancelsAtStart[r]

\* an on_item call: slot is the index in staged of the slot delivered, 0 for
\* an item given to on_item directly
SlotEntry(item, r, via, late, idx) ==
  [item |-> item, run |-> r, via |-> via, late |-> late, cancelled |-> Late(r),
   slot |-> idx]

Entry(item, r, via, late) == SlotEntry(item, r, via, late, 0)

\* ------------------------------------------------------------------ Init
InitWith(events) ==
  /\ generation = 0
  /\ canceled = FALSE
  /\ terminated = FALSE
  /\ hardAborted = FALSE
  /\ pendingAborts = {}
  /\ currentStream = 0
  /\ execAbortController = 0
  /\ abortedCtl = {}
  /\ alreadyProcessed = {}
  /\ pc = [r \in Runs |-> "idle"]
  /\ thisGeneration = [r \in Runs |-> 0]
  /\ turnInput = [r \in Runs |-> <<>>]
  /\ staged = [r \in Runs |-> <<>>]
  /\ attempt = [r \in Runs |-> 0]
  /\ delayMs = [r \in Runs |-> 0]
  /\ lastResponseId = [r \in Runs |-> 0]
  /\ tool = [r \in Runs |-> NoTool]
  /\ timers = <<>>
  /\ streamOut = [r \in Runs |-> <<>>]
  /\ streamPhase = [r \in Runs |-> "none"]
  /\ streamAborted = {}
  /\ nextCall = 1
  /\ nextMsg = 1
  /\ nextResp = 1
  /\ nextCtl = 1
  /\ nextRun = 1
  /\ budget = events
  /\ loading = FALSE
  /\ uiLastResponseId = 0
  /\ ncancel = 0
  /\ noopCalls = 0
  /\ callNext = [c \in CallIds |-> 0]
  /\ fenced = 0
  /\ cancelsAtStart = [r \in Runs |-> 0]
  /\ termAtStart = [r \in Runs |-> FALSE]
  /\ delivered = <<>>
  /\ loadTrue = [r \in Runs |-> 0]
  /\ loadFalse = [r \in Runs |-> 0]
  /\ sent = [c \in CallIds |-> 0]
  /\ completedIn = [x \in RespIds |-> 0]
  /\ lastResponseIdCalls = [x \in RespIds |-> 0]
  /\ clearedAt = 0

\* no processEventsWithoutStreaming call is followed on its own
IdleCalls ==
  /\ callOutput = <<>>
  /\ callIndex = 1
  /\ callTurnInput = <<>>
  /\ callReturns = <<>>

NoAssessment ==
  [type |-> "none", runInSandbox |-> FALSE, applyPatch |-> FALSE, patch |-> <<>>,
   group |-> ""]

\* no canAutoApprove call is followed on its own
IdleApproval ==
  /\ command = <<>>
  /\ policy = "suggest"
  /\ patchConstrained = FALSE
  /\ parseThrew = FALSE
  /\ assessment = NoAssessment
  /\ patchFiles = <<>>
  /\ writableRoots = {}

NoTime == -1
NoResult == [stdout |-> 0, stderr |-> 0, message |-> "", exitCode |-> 0]
NoExit == [code |-> "null", signal |-> "null"]

\* no exec() call is followed on its own
IdleExec ==
  /\ execSandbox = "none"
  /\ launched = "none"
  /\ promise = "none"
  /\ execResult = NoResult
  /\ settledBy = "none"
  /\ pid = 0
  /\ killed = FALSE
  /\ exited = FALSE
  /\ exitEvent = NoExit
  /\ abortSignal = "absent"
  /\ abortedAt = NoTime
  /\ signals = <<>>
  /\ killDue = NoTime
  /\ lateSignals = FALSE
  /\ now = 0
  /\ numStdoutBytes = 0
  /\ numStderrBytes = 0
  /\ hitMaxStdout = FALSE
  /\ hitMaxStderr = FALSE
  /\ stdoutChunks = 0
  /\ stderrChunks = 0
  /\ stdoutSeen = 0
  /\ stderrSeen = 0
  /\ dataEvents = 0

NoOutput == [kind |-> "none", text |-> "", exit_code |-> 0]
NoPatchResult == [threw |-> FALSE, stdout |-> "", stderr |-> "", exitCode |-> 0]

\* no handleExecCommand call is followed on its own
IdleHandler ==
  /\ classified = NoAssessment
  /\ confirmMode = "interactive"
  /\ handlerPc = "idle"
  /\ reviews = <<>>
  /\ requests = 0
  /\ executed = <<>>
  /\ outputText = NoOutput
  /\ patchOutcome = "none"
  /\ patchResult = NoPatchResult

\* no process_patch call is followed on its own
IdleEngine ==
  /\ engineBefore = <<>>
  /\ engineFiles = <<>>
  /\ engineOps = <<>>
  /\ engineStatus = "idle"
  /\ engineFailedAt = 0

\* no text input is followed
IdleInput ==
  /\ value = <<>>
  /\ cursorOffset = 0
  /\ cursorWidth = 0

IdleLate == IdleEngine /\ IdleInput

Init == InitWith(MaxEvents) /\ IdleCalls /\ IdleApproval /\ IdleExec /\ IdleHandler /\ IdleLate

\* ------------------------------------------------------- the turn loop
\* run() returns or throws: of its locals only staged and thisGeneration,
\* which the timer callbacks close over, outlive it
Returned(r, how) ==
  /\ pc' = [pc EXCEPT ![r] = how]
  /\ attempt' = [attempt EXCEPT ![r] = 0]
  /\ turnInput' = [turnInput EXCEPT ![r] = <<>>]

\* this.onItem(<system message>); this.onLoading(false); return
Surface(r, text) ==
  /\ delivered' = Append(delivered, Entry(SystemMessage(text), r, "error", FALSE))
  /\ loading' = FALSE
  /\ loadFalse' = [loadFalse EXCEPT ![r] = @ + 1]
  /\ Returned(r, "done")

\* this.onLoading(false); return
Exit(r) ==
  /\ loading' = FALSE
  /\ loadFalse' = [loadFalse EXCEPT ![r] = @ + 1]
  /\ Returned(r, "done")
  /\ UNCHANGED delivered

\* an error reaching the outer catch of run() (1020-1237)
Thrown(r, kind) ==
  IF OuterCatchMessage(kind) # ""
  THEN Surface(r, OuterCatchMessage(kind))
  ELSE /\ Returned(r, "thrown")
       /\ UNCHANGED <<delivered, loading, loadFalse>>

\* a loop top that does not poll canceled / hardAbort before the request
LoopTopNoPoll(r, ti, thisGen, gen, canc, stg, tms, ld) ==
  IF ti = <<>>
  THEN /\ Returned(r, "flushWait")
       /\ timers' = Append(tms, FlushTimer(r))
       /\ staged' = [staged EXCEPT ![r] = stg]
       /\ loading' = ld
       /\ UNCHANGED loadFalse
  ELSE /\ pc' = [pc EXCEPT ![r] = "request"]
       /\ staged' = [staged EXCEPT ![r] = StagedAfter(stg, thisGen, gen, ti)]
       /\ timers' = TimersAfter(tms, stg, r, thisGen, gen, ti)
       /\ turnInput' = [turnInput EXCEPT ![r] = ti]
       /\ attempt' = [attempt EXCEPT ![r] = 1]
       /\ loading' = ld
       /\ UNCHANGED loadFalse

\* The top of `while (turnInput.length > 0)` up to the first await (593-629),
\* or, when the loop is over, the scheduling of flush (1016).  ti, thisGen,
\* gen, canc, stg, tms and ld are the values of turnInput, thisGeneration,
\* this.generation, this.canceled, staged, the timer queue and the UI's
\* loading flag when control reaches the loop.
LoopTop(r, ti, thisGen, gen, canc, stg, tms, ld) ==
  IF ti = <<>>
  THEN /\ Returned(r, "flushWait")                                  \* 1016
       /\ timers' = Append(tms, FlushTimer(r))
       /\ staged' = [staged EXCEPT ![r] = stg]
       /\ loading' = ld
       /\ UNCHANGED loadFalse
  ELSE IF canc \/ hardAborted                                       \* 594-597
  THEN /\ loading' = FALSE
       /\ loadFalse' = [loadFalse EXCEPT ![r] = @ + 1]
       /\ Returned(r, "done")
       /\ timers' = tms
       /\ staged' = [staged EXCEPT ![r] = stg]
  ELSE /\ pc' = [pc EXCEPT ![r] = "request"]                        \* 629
       /\ staged' = [staged EXCEPT ![r] = StagedAfter(stg, thisGen, gen, ti)] \* 600-602
       /\ timers' = TimersAfter(tms, stg, r, thisGen, gen, ti)
       /\ turnInput' = [turnInput EXCEPT ![r] = ti]
       /\ attempt' = [attempt EXCEPT ![r] = 1]                      \* 610
       /\ loading' = ld
       /\ UNCHANGED loadFalse

\* run(input, previousResponseId) (468-629), called by the UI with its stored
\* last response id (terminal-chat 784-787) when it is not loading.
Run ==
  /\ nextRun \in Runs
  /\ budget > 0
  /\ budget' = budget - 1
  /\ ~loading \/ terminated
  /\ LET r == nextRun IN
     /\ nextRun' = nextRun + 1
     /\ cancelsAtStart' = [cancelsAtStart EXCEPT ![r] = ncancel]
     /\ termAtStart' = [termAtStart EXCEPT ![r] = terminated]
     /\ IF terminated
        THEN \* 486-488: throws; the outer catch (1020-1237) decides
             /\ Thrown(r, "terminated")
             /\ UNCHANGED <<instVars, thisGeneration, staged,
                            lastResponseId, tool, timers, nextCtl, loadTrue>>
        ELSE /\ generation' = generation + 1                                  \* 495
             /\ thisGeneration' = [thisGeneration EXCEPT ![r] = generation + 1]
             /\ canceled' = FALSE                                             \* 499
             /\ currentStream' = 0                                            \* 500
             /\ execAbortController' = nextCtl                                \* 506
             /\ nextCtl' = nextCtl + 1
             /\ lastResponseId' = [lastResponseId EXCEPT ![r] = uiLastResponseId] \* 523
             /\ pendingAborts' = {}                                           \* 546
             /\ loadTrue' = [loadTrue EXCEPT ![r] = @ + 1]                    \* 551
             /\ LoopTop(r, AbortOutputs(pendingAborts) \o <<UserInput(r)>>,   \* 549
                        generation + 1, generation + 1, FALSE, <<>>, timers, TRUE)
             /\ UNCHANGED <<terminated, hardAborted, abortedCtl, alreadyProcessed,
                            tool, delivered>>
     /\ UNCHANGED <<streamOut, streamPhase, streamAborted, nextCall, nextMsg, nextResp,
                    uiLastResponseId, ncancel, noopCalls, callNext, fenced, sent>>
  /\ UNCHANGED <<delayMs, respVars, fnVars>>

\* responses.create rejects (664-829)
RequestFails(r, kind, hint) ==
  /\ pc[r] = "request"
  /\ ~IsRateLimit(kind) => hint = NoHint
  /\ budget > 0
  /\ budget' = budget - 1
  /\ LET d == RetryDecision(kind, attempt[r]) IN
     /\ IF d = "retry"                              \* 685-693: continue, next create
        THEN /\ attempt' = [attempt EXCEPT ![r] = @ + 1]
             /\ UNCHANGED <<pc, turnInput, delayMs, delivered, loading, loadFalse>>
        ELSE IF d = "sleep"                         \* 723-746: await the backoff timer
        THEN /\ pc' = [pc EXCEPT ![r] = "backoff"]
             /\ delayMs' = [delayMs EXCEPT ![r] = RateLimitDelayMs(attempt[r], hint)] \* 727-745
             /\ UNCHANGED <<attempt, turnInput, delivered, loading, loadFalse>>
        ELSE /\ UNCHANGED delayMs
             /\ IF d = "msg:context_length"         \* 701-715
                THEN Surface(r, "context_length")
                ELSE IF d = "msg:rate_limit"        \* 747-775
                THEN Surface(r, "rate_limit")
                ELSE IF d = "msg:rejected"          \* 785-827
                THEN Surface(r, "rejected")
                ELSE Thrown(r, kind)                \* 828
  /\ UNCHANGED <<instVars, thisGeneration, staged, lastResponseId, tool,
                 timers, streamOut, streamPhase, streamAborted, nextCall, nextMsg,
                 nextResp, nextCtl, nextRun, uiLastResponseId, ncancel, noopCalls, callNext, fenced, cancelsAtStart,
                 termAtStart, loadTrue, sent>>
  /\ UNCHANGED <<respVars, fnVars>>

\* the backoff sleep is over (745-746): continue with the next attempt
BackoffWake(r) ==
  /\ pc[r] = "backoff"
  /\ pc' = [pc EXCEPT ![r] = "request"]
  /\ attempt' = [attempt EXCEPT ![r] = @ + 1]
  /\ delayMs' = [delayMs EXCEPT ![r] = 0]
  /\ UNCHANGED <<instVars, thisGeneration, turnInput, staged, lastResponseId, tool,
                 timers, envVars, loading, uiLastResponseId, ncancel, noopCalls, callNext, fenced, cancelsAtStart,
                 termAtStart, delivered, loadTrue, loadFalse, sent>>
  /\ UNCHANGED <<respVars, fnVars>>

\* the function_call_outputs of a turn input that answer call-id c
OutputsFor(ti, c) ==
  Cardinality({i \in 1..Len(ti) : ti[i].type = "function_call_output" /\ ti[i].id = c})

\* responses.create resolves with a stream (663, 831-861): the model has
\* accepted the turn input
RequestSucceeds(r) ==
  /\ pc[r] = "request"
  /\ sent' = [c \in CallIds |-> sent[c] + OutputsFor(turnInput[r], c)]
  /\ IF canceled \/ hardAborted                                    \* 837-849
     THEN /\ streamAborted' = streamAborted \cup {r}
          /\ Exit(r)
          /\ UNCHANGED <<currentStream, streamOut, streamPhase>>
     ELSE /\ currentStream' = r                                    \* 853
          /\ streamOut' = [streamOut EXCEPT ![r] = <<>>]
          /\ streamPhase' = [streamPhase EXCEPT ![r] = "open"]
          /\ pc' = [pc EXCEPT ![r] = "stream"]
          /\ turnInput' = [turnInput EXCEPT ![r] = <<>>]           \* 831
          /\ attempt' = [attempt EXCEPT ![r] = 0]                  \* 663: the retry loop is left
          /\ UNCHANGED <<streamAborted, delivered, loading, loadFalse>>
  /\ UNCHANGED <<generation, canceled, terminated, hardAborted, pendingAborts,
                 execAbortController, abortedCtl, alreadyProcessed, thisGeneration,
                 staged, lastResponseId, tool, timers, nextCall, nextMsg,
                 nextResp, nextCtl, nextRun, budget, uiLastResponseId, ncancel, noopCalls, callNext, fenced,
                 cancelsAtStart, termAtStart, loadTrue>>
  /\ UNCHANGED <<delayMs, respVars, fnVars>>

\* response.output_item.done (872-898)
StreamItemDone(r, type) ==
  /\ pc[r] = "stream"
  /\ streamPhase[r] = "open"
  /\ r \notin streamAborted
  /\ budget > 0
  /\ budget' = budget - 1
  /\ IF type = "function_call"
     THEN /\ nextCall' = nextCall + 1
          /\ callNext' = [callNext EXCEPT ![nextCall] = nextRun]
          /\ pendingAborts' = pendingAborts \cup {nextCall}             \* 889-894
          /\ streamOut' = [streamOut EXCEPT ![r] = Append(@, FunctionCall(nextCall))]
          /\ UNCHANGED <<nextMsg, staged, timers>>
     ELSE /\ nextMsg' = nextMsg + 1
          /\ staged' = [staged EXCEPT ![r] =                            \* 896
               StagedAfter(@, thisGeneration[r], generation, <<Message(nextMsg)>>)]
          /\ timers' = TimersAfter(timers, staged[r], r, thisGeneration[r], generation,
                                   <<Message(nextMsg)>>)
          /\ streamOut' = [streamOut EXCEPT ![r] = Append(@, Message(nextMsg))]
          /\ UNCHANGED <<nextCall, pendingAborts, callNext>>
  /\ UNCHANGED <<generation, canceled, terminated, hardAborted, currentStream,
                 execAbortController, abortedCtl, alreadyProcessed, pc, thisGeneration,
                 turnInput, attempt, lastResponseId, tool, streamPhase, streamAborted,
                 nextResp, nextCtl, nextRun, loading, uiLastResponseId, ncancel,
                 noopCalls, fenced, cancelsAtStart, termAtStart, delivered, loadTrue,
                 loadFalse, sent>>
  /\ UNCHANGED <<delayMs, respVars, fnVars>>

\* The loop of processEventsWithoutStreaming (1256-1267) over items, up to the
\* first function call that reaches handleExecCommand: the items given to
\* emitItem, the ids added to alreadyProcessedResponses, the call it is
\* suspended in (0: the loop is over) and the items after that call.
RECURSIVE ProcScan(_, _, _)
ProcScan(items, processed, canc) ==
  IF items = <<>>
  THEN [emit |-> <<>>, processed |-> processed, call |-> 0, rest |-> <<>>]
  ELSE LET h == Head(items) IN
       IF h.type = "function_call"
       THEN IF h.id \in processed
            THEN ProcScan(Tail(items), processed, canc)             \* 1258-1260
            ELSE IF canc                                            \* 352-354
            THEN LET rec == ProcScan(Tail(items), processed \cup {h.id}, canc)
                 IN [rec EXCEPT !.emit = <<h>> \o @]
            ELSE [emit |-> <<>>, processed |-> processed \cup {h.id},
                  call |-> h.id, rest |-> Tail(items)]              \* 450
       ELSE LET rec == ProcScan(Tail(items), processed, canc)
            IN [rec EXCEPT !.emit = <<h>> \o @]

\* a response.completed handler that does not report the response id
OnLastResponseIdNone(resp) == <<>>

\* the values the response.completed handler gives to on_last_response_id,
\* in order: event.response.id (916)
OnLastResponseId(resp) == <<resp>>

\* calls counted per response id after this.onLastResponseId was given ids
CallsAfter(calls, ids) ==
  [x \in RespIds |-> calls[x] + Cardinality({i \in 1..Len(ids) : ids[i] = x})]

\* the UI's setLastResponseId after the same calls (terminal-chat 465-481)
StoredAfter(ui, ids) == IF ids = <<>> THEN ui ELSE ids[Len(ids)]

\* processEventsWithoutStreaming runs on from items with acc collected so far;
\* when it returns, the rest of the response.completed handler (913-916)
Process(r, items, acc, resp, stg, tms) ==
  LET sc == ProcScan(items, alreadyProcessed, canceled) IN
  /\ alreadyProcessed' = sc.processed
  /\ staged' = [staged EXCEPT ![r] = StagedAfter(stg, thisGeneration[r], generation, sc.emit)]
  /\ timers' = TimersAfter(tms, stg, r, thisGeneration[r], generation, sc.emit)
  /\ IF sc.call # 0
     THEN /\ pc' = [pc EXCEPT ![r] = "tool"]
          /\ tool' = [tool EXCEPT ![r] = [call |-> sc.call, rest |-> sc.rest, acc |-> acc,
                                          resp |-> resp, ctl |-> execAbortController]]
          /\ UNCHANGED <<turnInput, lastResponseId, uiLastResponseId, lastResponseIdCalls>>
     ELSE /\ pc' = [pc EXCEPT ![r] = "stream"]
          /\ tool' = [tool EXCEPT ![r] = NoTool]
          /\ turnInput' = [turnInput EXCEPT ![r] = acc]                       \* 913
          /\ lastResponseId' = [lastResponseId EXCEPT ![r] = resp]            \* 915
          /\ uiLastResponseId' = StoredAfter(uiLastResponseId, OnLastResponseId(resp)) \* 916
          /\ lastResponseIdCalls' = CallsAfter(lastResponseIdCalls, OnLastResponseId(resp))

\* response.completed (900-917)
StreamCompleted(r, status) ==
  /\ pc[r] = "stream"
  /\ streamPhase[r] = "open"
  /\ r \notin streamAborted
  /\ streamPhase' = [streamPhase EXCEPT ![r] = "completed"]
  /\ nextResp' = nextResp + 1
  /\ completedIn' = [completedIn EXCEPT ![nextResp] = r]
  /\ LET out == streamOut[r]
         restage == thisGeneration[r] = generation /\ ~canceled              \* 901
         stg == IF restage THEN StagedAfter(staged[r], thisGeneration[r], generation, out)
                ELSE staged[r]
         tms == IF restage
                THEN TimersAfter(timers, staged[r], r, thisGeneration[r], generation, out)
                ELSE timers
     IN IF status = "completed" /\ ~canceled                                  \* 906, 1252
        THEN Process(r, out, <<>>, nextResp, stg, tms)
        ELSE /\ staged' = [staged EXCEPT ![r] = stg]
             /\ timers' = tms
             /\ turnInput' = [turnInput EXCEPT ![r] =
                                IF status = "completed" THEN <<>> ELSE @]     \* 1253, 913
             /\ lastResponseId' = [lastResponseId EXCEPT ![r] = nextResp]    \* 915
             /\ uiLastResponseId' = StoredAfter(uiLastResponseId, OnLastResponseId(nextResp)) \* 916
             /\ lastResponseIdCalls' = CallsAfter(lastResponseIdCalls, OnLastResponseId(nextResp))
             /\ UNCHANGED <<pc, tool, alreadyProcessed>>
  /\ UNCHANGED <<generation, canceled, terminated, hardAborted, pendingAborts,
                 currentStream, execAbortController, abortedCtl, thisGeneration, attempt,
                 streamOut, streamAborted, nextCall, nextMsg, nextCtl, nextRun, budget,
                 loading, ncancel, noopCalls, callNext, fenced, cancelsAtStart, termAtStart, delivered, loadTrue,
                 loadFalse, sent>>
  /\ UNCHANGED <<delayMs, clearedAt, fnVars>>

\* handleExecCommand resolves (450-465); processEventsWithoutStreaming pushes
\* the output and emits the call item (1263-1266), then runs on
ExecReturns(r) ==
  /\ pc[r] = "tool"
  /\ LET t == tool[r]
         stg == StagedAfter(staged[r], thisGeneration[r], generation, <<FunctionCall(t.call)>>)
         tms == TimersAfter(timers, staged[r], r, thisGeneration[r], generation,
                            <<FunctionCall(t.call)>>)
     IN Process(r, t.rest, Append(t.acc, FunctionCallOutput(t.call, "exec")), t.resp, stg, tms)
  /\ UNCHANGED <<generation, canceled, terminated, hardAborted, pendingAborts,
                 currentStream, execAbortController, abortedCtl, thisGeneration, attempt,
                 envVars, loading, ncancel, noopCalls, callNext, fenced, cancelsAtStart, termAtStart, delivered,
                 loadTrue, loadFalse, sent>>
  /\ UNCHANGED <<delayMs, completedIn, clearedAt, fnVars>>

\* the stream is exhausted (865, 933-942): back to the loop condition
StreamEnds(r) ==
  /\ pc[r] = "stream"
  /\ streamPhase[r] = "completed"
  /\ r \notin streamAborted
  /\ currentStream' = 0                                                       \* 934
  /\ streamPhase' = [streamPhase EXCEPT ![r] = "none"]
  /\ LoopTop(r, turnInput[r], thisGeneration[r], generation, canceled, staged[r],
             timers, loading)
  /\ UNCHANGED <<generation, canceled, terminated, hardAborted, pendingAborts,
                 execAbortController, abortedCtl, alreadyProcessed, thisGeneration,
                 lastResponseId, tool, streamOut, streamAborted, nextCall, nextMsg,
                 nextResp, nextCtl, nextRun, budget, uiLastResponseId, ncancel, noopCalls, callNext, fenced,
                 cancelsAtStart, termAtStart, delivered, loadTrue, sent>>
  /\ UNCHANGED <<delayMs, respVars, fnVars>>

\* what the iteration of a stream can throw: an AbortError once its controller
\* was aborted, a transport or other failure otherwise
StreamErrorKinds(r) ==
  IF r \in streamAborted THEN {"abort"} ELSE {"premature_close", "network", "other"}

\* the stream iteration throws (919-935)
StreamThrows(r, kind) ==
  /\ pc[r] = "stream"
  /\ streamPhase[r] = "open"
  /\ kind \in StreamErrorKinds(r)
  /\ budget > 0
  /\ budget' = budget - 1
  /\ currentStream' = 0                                                       \* 934
  /\ streamPhase' = [streamPhase EXCEPT ![r] = "none"]
  /\ IF kind = "abort" /\ canceled                                            \* 923-931
     THEN Exit(r)
     ELSE Thrown(r, kind)                                                     \* 927, 932
  /\ UNCHANGED <<generation, canceled, terminated, hardAborted, pendingAborts,
                 execAbortController, abortedCtl, alreadyProcessed, thisGeneration,
                 staged, lastResponseId, tool, timers, streamOut,
                 streamAborted, nextCall, nextMsg, nextResp, nextCtl, nextRun,
                 uiLastResponseId, ncancel, noopCalls, callNext, fenced, cancelsAtStart, termAtStart, loadTrue, sent>>
  /\ UNCHANGED <<delayMs, respVars, fnVars>>

\* the 10 ms delivery callback of a staged slot (579-590)
DeliveryTimer(i) ==
  /\ i \in 1..Len(timers)
  /\ timers[i].kind = "deliver"
  /\ MayFire(timers, i)
  /\ LET r == timers[i].run
         idx == timers[i].idx
         slot == staged[r][idx]
     IN IF DeliverGuard(thisGeneration[r], generation, canceled, hardAborted)
        THEN /\ delivered' = Append(delivered,
                               SlotEntry(slot.item, r, "timer", slot.epoch < ncancel, idx)) \* 585
             /\ staged' = [staged EXCEPT ![r][idx].live = FALSE]                      \* 588
             /\ UNCHANGED fenced
        ELSE /\ fenced' = IF ~canceled /\ ~hardAborted /\ slot.epoch < ncancel
                          THEN fenced + 1 ELSE fenced
             /\ UNCHANGED <<delivered, staged>>
  /\ timers' = RemoveAt(timers, i)
  /\ UNCHANGED <<instVars, pc, thisGeneration, turnInput, attempt, lastResponseId, tool,
                 envVars, loading, uiLastResponseId, ncancel, noopCalls, callNext, cancelsAtStart,
                 termAtStart, loadTrue, loadFalse, sent>>
  /\ UNCHANGED <<delayMs, respVars, fnVars>>

\* the slots of a staged array that were not nulled, in order
LiveSlots(stg) == SelectSeq(stg, LAMBDA s : s.live)

\* their indices, as `for (const item of staged)` visits them (956-960)
LiveIdx(stg) == SetToSeq({k \in 1..Len(stg) : stg[k].live})

\* the 30 ms flush callback (948-1012)
Flush(i) ==
  /\ i \in 1..Len(timers)
  /\ timers[i].kind = "flush"
  /\ MayFire(timers, i)
  /\ LET r == timers[i].run
         rem == LiveSlots(staged[r])
         idxs == LiveIdx(staged[r])
     IN /\ delivered' =
             IF FlushGuard(thisGeneration[r], generation, canceled, hardAborted)
             THEN delivered \o [k \in 1..Len(rem) |->
                                  SlotEntry(rem[k].item, r, "flush", rem[k].epoch < ncancel,
                                            idxs[k])]
             ELSE delivered
        /\ fenced' =
             IF /\ ~FlushGuard(thisGeneration[r], generation, canceled, hardAborted)
                /\ ~canceled /\ ~hardAborted
                /\ \E k \in 1..Len(rem) : rem[k].epoch < ncancel
             THEN fenced + 1 ELSE fenced
        /\ pendingAborts' = {}                                                \* 970
        /\ loading' = FALSE                                                   \* 1011
        /\ loadFalse' = [loadFalse EXCEPT ![r] = @ + 1]
        /\ pc' = [pc EXCEPT ![r] = "done"]
  /\ timers' = RemoveAt(timers, i)
  /\ UNCHANGED <<generation, canceled, terminated, hardAborted, currentStream,
                 execAbortController, abortedCtl, alreadyProcessed, thisGeneration,
                 turnInput, staged, attempt, lastResponseId, tool, envVars,
                 uiLastResponseId, ncancel, noopCalls, callNext, cancelsAtStart, termAtStart, loadTrue, sent>>
  /\ UNCHANGED <<delayMs, respVars, fnVars>>

\* The stream whose controller cancel() aborts (165-167): this.currentStream
\* as read there, after line 155 has set it to null.
StreamAbortedByCancel(cur) == 0

\* a cancel() that clears the stored last response id whatever is pending
ClearsLastResponseIdAlways(pending) == TRUE

\* cancel() clears the stored last response id when no call-id is pending (196)
ClearsLastResponseId(pending) == pending = {}

\* The body of cancel() (148-225) with this.terminated = term; ab is the set
\* of aborted exec controllers when it is entered.
CancelBody(term, ab) ==
  IF term
  THEN /\ abortedCtl' = ab                                                    \* 149-151
       /\ UNCHANGED <<currentStream, streamAborted, canceled, execAbortController,
                      nextCtl, uiLastResponseId, loading, generation>>
  ELSE /\ currentStream' = 0                                                  \* 155
       /\ streamAborted' = IF StreamAbortedByCancel(currentStream) # 0        \* 165-167
                           THEN streamAborted \cup {StreamAbortedByCancel(currentStream)}
                           ELSE streamAborted
       /\ canceled' = TRUE                                                    \* 169
       /\ abortedCtl' = IF execAbortController # 0                            \* 173
                        THEN ab \cup {execAbortController} ELSE ab
       /\ execAbortController' = nextCtl                                      \* 177
       /\ nextCtl' = nextCtl + 1
       /\ uiLastResponseId' = IF ClearsLastResponseId(pendingAborts)             \* 196-202
                              THEN 0 ELSE uiLastResponseId
       /\ loading' = FALSE                                                    \* 204
       /\ generation' = generation + 1                                        \* 221

\* the UI calls cancel() (terminal-chat 755-765, 806, 839)
Cancel ==
  /\ budget > 0
  /\ budget' = budget - 1
  /\ ncancel' = IF terminated THEN ncancel ELSE ncancel + 1
  /\ noopCalls' = IF terminated THEN noopCalls + 1 ELSE noopCalls
  /\ CancelBody(terminated, abortedCtl)
  /\ UNCHANGED <<terminated, hardAborted, pendingAborts, alreadyProcessed, runVars,
                 timers, streamOut, streamPhase, nextCall, nextMsg, nextResp, nextRun,
                 callNext, fenced, cancelsAtStart, termAtStart, delivered, loadTrue,
                 loadFalse, sent>>
  /\ clearedAt' = IF ~terminated /\ ClearsLastResponseId(pendingAborts)           \* 196-202
                  THEN nextRun ELSE clearedAt
  /\ UNCHANGED <<completedIn, lastResponseIdCalls, fnVars>>

\* terminate() (236-245); the hardAbort listener of the constructor (334-338)
\* aborts the current exec controller, then cancel() runs with terminated set
Terminate ==
  /\ budget > 0
  /\ budget' = budget - 1
  /\ IF terminated
     THEN /\ noopCalls' = noopCalls + 1                                       \* 237-239
          /\ UNCHANGED <<terminated, hardAborted, abortedCtl, currentStream,
                         streamAborted, canceled, execAbortController, nextCtl,
                         uiLastResponseId, loading, generation>>
     ELSE /\ terminated' = TRUE                                               \* 240
          /\ hardAborted' = TRUE                                              \* 242
          /\ CancelBody(TRUE, IF execAbortController # 0                      \* 336, 244
                              THEN abortedCtl \cup {execAbortController} ELSE abortedCtl)
          /\ UNCHANGED noopCalls
  /\ UNCHANGED <<pendingAborts, alreadyProcessed, runVars, timers, streamOut,
                 streamPhase, nextCall, nextMsg, nextResp, nextRun, ncancel, callNext,
                 fenced, cancelsAtStart, termAtStart, delivered, loadTrue, loadFalse, sent>>
  /\ UNCHANGED <<respVars, fnVars>>

Next ==
  \/ Run
  \/ \E r \in Runs, kind \in RequestErrorKinds, hint \in SomeHints :
        RequestFails(r, kind, hint)
  \/ \E r \in Runs : BackoffWake(r)
  \/ \E r \in Runs : RequestSucceeds(r)
  \/ \E r \in Runs, type \in {"message", "function_call"} : StreamItemDone(r, type)
  \/ \E r \in Runs, status \in {"completed", "incomplete"} : StreamCompleted(r, status)
  \/ \E r \in Runs : ExecReturns(r)
  \/ \E r \in Runs : StreamEnds(r)
  \/ \E r \in Runs, kind \in {"abort", "premature_close", "network", "other"} :
        StreamThrows(r, kind)
  \/ \E i \in 1..Len(timers) : DeliveryTimer(i)
  \/ \E i \in 1..Len(timers) : Flush(i)
  \/ Cancel
  \/ Terminate

Spec == Init /\ [][Next]_vars

\* What the event loop and the network do on their own: a pending request is
\* answered, a stream that is open completes or fails, an awaited exec call
\* returns, and a timer that is due fires.  The UI's calls (run, cancel,
\* terminate) and further stream items are not owed.
Progress ==
  \/ \E r \in Runs, kind \in RequestErrorKinds, hint \in SomeHints :
        RequestFails(r, kind, hint)
  \/ \E r \in Runs : BackoffWake(r)
  \/ \E r \in Runs : RequestSucceeds(r)
  \/ \E r \in Runs, status \in {"completed", "incomplete"} : StreamCompleted(r, status)
  \/ \E r \in Runs : ExecReturns(r)
  \/ \E r \in Runs : StreamEnds(r)
  \/ \E r \in Runs, kind \in {"abort", "premature_close", "network", "other"} :
        StreamThrows(r, kind)
  \/ \E i \in 1..Len(timers) : DeliveryTimer(i)
  \/ \E i \in 1..Len(timers) : Flush(i)

\* the turn loop with an event loop that always runs what is pending
SpecLive == Init /\ [][Next]_vars /\ WF_vars(Progress)

\* ---------------------------------------------------- the retry loop alone
\* run() calls and the API's answers to responses.create, with streams that
\* complete without output: no cancel(), no terminate(), no broken stream.
InitRetry == InitWith(RetryEvents) /\ IdleCalls /\ IdleApproval /\ IdleExec /\ IdleHandler
             /\ IdleLate

NextRetry ==
  \/ Run
  \/ \E r \in Runs, kind \in RequestErrorKinds, hint \in AllHints :
        RequestFails(r, kind, hint)
  \/ \E r \in Runs : BackoffWake(r)
  \/ \E r \in Runs : RequestSucceeds(r)
  \/ \E r \in Runs, status \in {"completed", "incomplete"} : StreamCompleted(r, status)
  \/ \E r \in Runs : StreamEnds(r)
  \/ \E i \in 1..Len(timers) : DeliveryTimer(i)
  \/ \E i \in 1..Len(timers) : Flush(i)

SpecRetry == InitRetry /\ [][NextRetry]_vars

\* ------------------------------------- processEventsWithoutStreaming alone
\* One call of processEventsWithoutStreaming over the function calls of a
\* response, for every shape of call the handler distinguishes.
MaxCalls == 2
MaxExtra == 1

Undefined == 0

\* A function_call item.  The responses endpoint gives it a call_id and an id
\* of its own, the chat endpoint an id only and the details under `function`
\* (365-392).  argsOk: parseToolCallArguments(rawArguments) is not null (394).
CallItem(k, style, name, argsOk) ==
  [type |-> "function_call",
   call_id |-> IF style = "responses" THEN k ELSE Undefined,
   id |-> IF style = "responses" THEN MaxCalls + MaxExtra + k ELSE k,
   chat |-> style = "chat",
   name |-> name,
   argsOk |-> argsOk]

CallShapes ==
  [style : {"responses", "chat"},
   name : {"shell", "container.exec", "unknown"},
   argsOk : BOOLEAN]

CallOutputs ==
  UNION {{[k \in 1..n |-> CallItem(k, f[k].style, f[k].name, f[k].argsOk)] :
            f \in [1..n -> CallShapes]} : n \in 1..MaxCalls}

\* const callId = item.call_id ?? item.id (392)
CallIdOf(item) == IF item.call_id # Undefined THEN item.call_id ELSE item.id

CallOutputItem(callId, text) ==
  [type |-> "function_call_output", call_id |-> callId, output |-> text]

\* additionalItems of handleExecCommand: n input items
AdditionalItems(n) ==
  [i \in 1..n |-> [type |-> "message", call_id |-> Undefined, output |-> "additional"]]

\* handleFunctionCall(item) (341-466) with this.canceled = canc at its entry
\* and handleExecCommand returning extra additional items
HandleFunctionCall(item, canc, extra) ==
  IF canc THEN <<>>                                                     \* 352-354
  ELSE IF ~item.argsOk
  THEN <<CallOutputItem(item.call_id, "invalid arguments")>>            \* 403-410
  ELSE IF item.name \in {"container.exec", "shell"}                     \* 445-462
  THEN <<CallOutputItem(CallIdOf(item), "exec")>> \o AdditionalItems(extra)
  ELSE <<CallOutputItem(CallIdOf(item), "no function found")>>          \* 412-420, 465

InitCalls ==
  /\ InitWith(MaxEvents)
  /\ IdleApproval
  /\ IdleExec
  /\ IdleHandler
  /\ IdleLate
  /\ callOutput \in CallOutputs
  /\ callIndex = 1
  /\ callTurnInput = <<>>
  /\ callReturns = <<>>

\* one iteration of `for (const item of output)` (1256-1267), the first one
\* after the check of this.canceled at the entry (1252-1254)
ProcessEventsStep(extra) ==
  /\ callIndex \in 1..Len(callOutput)
  /\ LET item == callOutput[callIndex] IN
     IF callIndex = 1 /\ canceled                                       \* 1252-1254
     THEN /\ callIndex' = Len(callOutput) + 1
          /\ UNCHANGED <<callTurnInput, callReturns, alreadyProcessed>>
     ELSE IF item.id \in alreadyProcessed                               \* 1258-1260
     THEN /\ callIndex' = callIndex + 1
          /\ UNCHANGED <<callTurnInput, callReturns, alreadyProcessed>>
     ELSE LET result == HandleFunctionCall(item, canceled, extra) IN
          /\ alreadyProcessed' = alreadyProcessed \cup {item.id}       \* 1261
          /\ callReturns' = Append(callReturns,
                                   [item |-> item, canceled |-> canceled, result |-> result])
          /\ callTurnInput' = callTurnInput \o result                   \* 1264
          /\ callIndex' = callIndex + 1
  /\ UNCHANGED <<callOutput, approvalVars, execVars, handlerVars, lateVars,
                 generation, canceled, terminated, hardAborted,
                 pendingAborts, currentStream, execAbortController, abortedCtl,
                 runVars, envVars, obsVars, respVars, timers>>

\* cancel() sets this.canceled (169) while the call is suspended in an await
CancelArrives ==
  /\ callIndex \in 1..Len(callOutput)
  /\ ~canceled
  /\ canceled' = TRUE
  /\ UNCHANGED <<fnVars, generation, terminated, hardAborted, pendingAborts,
                 currentStream, execAbortController, abortedCtl, alreadyProcessed,
                 runVars, envVars, obsVars, respVars, timers>>

NextCalls ==
  \/ \E extra \in 0..MaxExtra : ProcessEventsStep(extra)
  \/ CancelArrives

SpecCalls == InitCalls /\ [][NextCalls]_vars

\* --------------------------------------------------- canAutoApprove alone
\* A string is the sequence of its characters; a word that no function looks
\* into (ls, rm, git, ...) stands as one character of its own.
MaxScriptLen == 3

Str(w) == <<w>>

\* what a script under `bash -lc` is made of
ScriptAtoms == {"ls", "rm", "apply_patch", " ", "|", "&", ";", ">", "<", "(", ")", "{", "}"}

\* the characters shell-quote's parse reads as (part of) a control operator
OpAtoms == {"|", "&", ";", ">", "<"}

\* the characters that make up words
WordAtoms == ScriptAtoms \ (OpAtoms \cup {" ", "(", ")"})

RECURSIVE ScriptsUpTo(_)
ScriptsUpTo(n) ==
  IF n = 0 THEN {<<>>}
  ELSE LET shorter == ScriptsUpTo(n - 1)
       IN shorter \cup {Append(t, a) : t \in {u \in shorter : Len(u) = n - 1}, a \in ScriptAtoms}

Scripts == ScriptsUpTo(MaxScriptLen)

\* argv given to the classifier without a shell
DirectCommands ==
  {<<>>,
   <<Str("ls")>>, <<Str("ls"), Str("-la")>>, <<Str("rm"), Str("-rf")>>,
   <<Str("echo"), Str(">"), Str("f")>>,
   <<Str("git"), Str("status")>>, <<Str("git"), Str("push")>>, <<Str("git")>>,
   <<Str("cargo"), Str("check")>>, <<Str("cargo"), Str("build")>>,
   <<Str("sed"), Str("-n"), <<"1", "p">>, Str("f")>>,
   <<Str("sed"), Str("-n"), <<"1", ",", "3", "p">>, Str("f")>>,
   <<Str("sed"), Str("-n"), <<"p">>, Str("f")>>,
   <<Str("sed"), Str("-n"), <<"1", ",", "p">>, Str("f")>>,
   <<Str("sed"), Str("-n"), <<"1", "p">>>>,
   <<Str("sed"), Str("-i"), <<"1", "p">>, Str("f")>>,
   <<Str("apply_patch"), Str("patch")>>, <<Str("apply_patch")>>,
   <<Str("bash"), Str("-c"), Str("ls")>>}

Commands == DirectCommands \cup {<<Str("bash"), Str("-lc"), t>> : t \in Scripts}

Policies == {"suggest", "auto-edit", "full-auto"}

Null == [reason |-> "null", group |-> "null"]

\* command[i] of a destructuring or an index that may be out of range
Arg(cmd, i) == IF i \in 1..Len(cmd) THEN cmd[i] ELSE <<>>

\* /^(\d+,)?\d+p$/ (454-456)
SedDigits == {"0", "1", "2", "3", "4", "5", "6", "7", "8", "9"}

IsDigitRun(t) == Len(t) >= 1 /\ \A i \in 1..Len(t) : t[i] \in SedDigits

isValidSedNArg(arg) ==
  /\ Len(arg) >= 2
  /\ arg[Len(arg)] = "p"
  /\ LET body == SubSeq(arg, 1, Len(arg) - 1) IN
     \/ IsDigitRun(body)
     \/ \E i \in 2..(Len(body) - 1) :
           /\ body[i] = ","
           /\ IsDigitRun(SubSeq(body, 1, i - 1))
           /\ IsDigitRun(SubSeq(body, i + 1, Len(body)))

\* the verbs isSafeCommand accepts whatever their arguments, with their group
SafeVerbGroup ==
  [cd |-> "Navigating", ls |-> "Searching", pwd |-> "Navigating", true |-> "Utility",
   echo |-> "Printing", cat |-> "Reading files", rg |-> "Searching", find |-> "Searching",
   grep |-> "Searching", head |-> "Reading files", tail |-> "Reading files",
   wc |-> "Reading files", which |-> "Searching"]

GitGroup ==
  [status |-> "Versioning", branch |-> "Versioning", log |-> "Using git",
   diff |-> "Using git", show |-> "Using git"]

Safe(reason, group) == [reason |-> reason, group |-> group]

\* isSafeCommand(command) (328-452)
isSafeCommand(cmd) ==
  LET cmd0 == Arg(cmd, 1)
      cmd1 == Arg(cmd, 2)
      cmd2 == Arg(cmd, 3)
  IN IF Len(cmd0) = 1 /\ cmd0[1] \in DOMAIN SafeVerbGroup                 \* 334-395
     THEN Safe(cmd0[1], SafeVerbGroup[cmd0[1]])
     ELSE IF cmd0 = Str("git")                                             \* 396-425
     THEN IF Len(cmd1) = 1 /\ cmd1[1] \in DOMAIN GitGroup
          THEN Safe("git", GitGroup[cmd1[1]])
          ELSE Null
     ELSE IF cmd0 = Str("cargo") /\ cmd1 = Str("check")                    \* 426-433
     THEN Safe("cargo check", "Running command")
     ELSE IF /\ cmd0 = Str("sed")                                          \* 434-446
             /\ cmd1 = Str("-n")
             /\ isValidSedNArg(cmd2)
             /\ Len(cmd) = 4
     THEN Safe("sed", "Reading files")
     ELSE Null

\* an allow-list that lets output redirection through
SafeShellOperatorsWithRedirect == {"&&", "||", "|", ";", ">"}

\* SAFE_SHELL_OPERATORS (470-475)
SAFE_SHELL_OPERATORS == {"&&", "||", "|", ";"}

StrEntry(t) == [kind |-> "str", text |-> t, op |-> ""]
OpEntry(o) == [kind |-> "op", text |-> <<>>, op |-> o]

\* the control operators of shell-quote that two or three characters make
LongOps ==
  {<<"|", "|">>, <<"&", "&">>, <<";", ";">>, <<"|", "&">>, <<"<", "<", "<">>,
   <<">", ">">>, <<">", "&">>, <<"<", "&">>}

OpLen(rest) ==
  IF Len(rest) >= 3 /\ SubSeq(rest, 1, 3) \in LongOps THEN 3
  ELSE IF Len(rest) >= 2 /\ SubSeq(rest, 1, 2) \in LongOps THEN 2
  ELSE 1

OpName(t) ==
  IF Len(t) = 1 THEN t[1]
  ELSE IF t = <<"|", "|">> THEN "||"
  ELSE IF t = <<"&", "&">> THEN "&&"
  ELSE IF t = <<";", ";">> THEN ";;"
  ELSE IF t = <<"|", "&">> THEN "|&"
  ELSE IF t = <<">", ">">> THEN ">>"
  ELSE IF t = <<">", "&">> THEN ">&"
  ELSE IF t = <<"<", "&">> THEN "<&"
  ELSE "<<<"

\* parse(script) of shell-quote as canAutoApprove relies on it (128, 153-154,
\* 462-465, 500-503): blanks separate words, control operators become
\* { op } entries, a grouping parenthesis a string of its own, braces stay
\* in the word they are written in.  cur is the word being read.
RECURSIVE Tokens(_, _)
Tokens(rest, cur) ==
  LET word == IF cur = <<>> THEN <<>> ELSE <<StrEntry(cur)>> IN
  IF rest = <<>> THEN word
  ELSE LET a == Head(rest) IN
       IF a = " " THEN word \o Tokens(Tail(rest), <<>>)
       ELSE IF a \in {"(", ")"}
       THEN word \o <<StrEntry(<<a>>)>> \o Tokens(Tail(rest), <<>>)
       ELSE IF a \in OpAtoms
       THEN LET n == OpLen(rest)
            IN word \o <<OpEntry(OpName(SubSeq(rest, 1, n)))>>
                    \o Tokens(SubSeq(rest, n + 1, Len(rest)), <<>>)
       ELSE Tokens(Tail(rest), Append(cur, a))

parse(script) == Tokens(script, <<>>)

\* flushSegment (511-524): Null when the segment is not a safe command, else
\* firstReason after it
FlushSegment(seg, first) ==
  IF seg = <<>> THEN [ok |-> TRUE, first |-> first]
  ELSE IF isSafeCommand(seg) = Null THEN [ok |-> FALSE, first |-> first]
  ELSE [ok |-> TRUE, first |-> IF first = Null THEN isSafeCommand(seg) ELSE first]

\* the loop of isEntireShellExpressionSafe over parts (526-560)
RECURSIVE WalkParts(_, _, _, _)
WalkParts(parts, seg, first, safeOps) ==
  IF parts = <<>>
  THEN IF FlushSegment(seg, first).ok THEN FlushSegment(seg, first).first ELSE Null
  ELSE LET part == Head(parts) IN
       IF part.kind = "str"
       THEN IF part.text \in {Str("("), Str(")"), Str("{"), Str("}")}      \* 531-533
            THEN Null
            ELSE WalkParts(Tail(parts), Append(seg, part.text), first, safeOps)
       ELSE IF ~FlushSegment(seg, first).ok THEN Null                      \* 538-540
       ELSE IF part.op \notin safeOps THEN Null                            \* 544-546
       ELSE WalkParts(Tail(parts), <<>>, FlushSegment(seg, first).first, safeOps)

\* isEntireShellExpressionSafe(parts) (492-566)
isEntireShellExpressionSafe(parts) ==
  IF parts = <<>> THEN Null ELSE WalkParts(parts, <<>>, Null, SAFE_SHELL_OPERATORS)

\* white space: \s of a pattern, and what String.prototype.trim strips
Blanks == {" ", "\n"}

RECURSIVE TrimStart(_)
TrimStart(t) == IF t # <<>> /\ Head(t) \in Blanks THEN TrimStart(Tail(t)) ELSE t

RECURSIVE TrimEnd(_)
TrimEnd(t) ==
  IF t # <<>> /\ t[Len(t)] \in Blanks THEN TrimEnd(SubSeq(t, 1, Len(t) - 1)) ELSE t

Trim(t) == TrimEnd(TrimStart(t))

Quotes == {"'", "\""}

\* a heredoc delimiter, \w+ of the pattern, as one character
DelimAtoms == {"EOF"}

NoMatch == [matched |-> FALSE, body |-> <<>>]

\* t without a leading quote
Unquote(t) == IF t # <<>> /\ Head(t) \in Quotes THEN Tail(t) ELSE t

\* heredoc.match(/^\s*<<\s*['"]?(\w+)['"]?\n([\s\S]*?)\n\1/) (307-309): the
\* second group, the shortest text up to a newline followed by the delimiter
HeredocMatch(heredoc) ==
  LET a == TrimStart(heredoc) IN
  IF Len(a) < 2 \/ SubSeq(a, 1, 2) # <<"<", "<">> THEN NoMatch
  ELSE LET b == Unquote(TrimStart(SubSeq(a, 3, Len(a)))) IN
       IF b = <<>> \/ Head(b) \notin DelimAtoms THEN NoMatch
       ELSE LET delim == Head(b)
                c == Unquote(Tail(b))
            IN IF c = <<>> \/ Head(c) # "\n" THEN NoMatch
               ELSE LET body == Tail(c)
                        ends == {k \in 1..(Len(body) - 1) :
                                   body[k] = "\n" /\ body[k + 1] = delim}
                    IN IF ends = {} THEN NoMatch
                       ELSE [matched |-> TRUE,
                             body |-> SubSeq(body, 1,
                                        (CHOOSE k \in ends : \A m \in ends : k <= m) - 1)]

\* tryParseApplyPatch(bashArg) (300-315)
tryParseApplyPatch(bashArg) ==
  IF bashArg # <<>> /\ Head(bashArg) = "apply_patch"
  THEN LET heredoc == Tail(bashArg) IN
       IF HeredocMatch(heredoc).matched
       THEN [found |-> TRUE, patch |-> Trim(HeredocMatch(heredoc).body)]
       ELSE [found |-> TRUE, patch |-> Trim(heredoc)]
  ELSE [found |-> FALSE, patch |-> <<>>]

AutoApprove(sandbox, group, hasPatch, patch) ==
  [type |-> "auto-approve", runInSandbox |-> sandbox, applyPatch |-> hasPatch,
   patch |-> patch, group |-> group]

AskUser(hasPatch, patch) ==
  [type |-> "ask-user", runInSandbox |-> FALSE, applyPatch |-> hasPatch,
   patch |-> patch, group |-> ""]

Reject == [type |-> "reject", runInSandbox |-> FALSE, applyPatch |-> FALSE,
           patch |-> <<>>, group |-> ""]

\* a patch check that does not look at the policy first
canAutoApproveApplyPatchAnyPolicy(patch, pol, constrained) ==
  IF constrained
  THEN [type |-> "auto-approve", runInSandbox |-> FALSE, applyPatch |-> TRUE,
        patch |-> patch, group |-> "Editing"]
  ELSE [type |-> "ask-user", runInSandbox |-> FALSE, applyPatch |-> TRUE,
        patch |-> patch, group |-> ""]

\* canAutoApproveApplyPatch (181-222); constrained is the value of
\* isWritePatchConstrainedToWritablePaths(applyPatchArg, writableRoots)
canAutoApproveApplyPatch(patch, pol, constrained) ==
  IF pol = "suggest" THEN AskUser(TRUE, patch)                             \* 190-194
  ELSE IF constrained THEN AutoApprove(FALSE, "Editing", TRUE, patch)      \* 200-208
  ELSE IF pol = "full-auto" THEN AutoApprove(TRUE, "Editing", TRUE, patch) \* 210-217
  ELSE AskUser(TRUE, patch)

\* the policy fallback (133-150, 171-178)
PolicyFallback(pol) ==
  IF pol = "full-auto" THEN AutoApprove(TRUE, "Running commands", FALSE, <<>>)
  ELSE AskUser(FALSE, <<>>)

IsBashLc(cmd) == Len(cmd) = 3 /\ cmd[1] = Str("bash") /\ cmd[2] = Str("-lc")  \* 115-120

\* canAutoApprove(command, policy, writableRoots) (89-179); throws: parse
\* raises on the script
canAutoApprove(cmd, pol, constrained, throws) ==
  IF Arg(cmd, 1) = Str("apply_patch")                                      \* 95-102
  THEN IF Len(cmd) = 2 THEN canAutoApproveApplyPatch(cmd[2], pol, constrained)
       ELSE Reject
  ELSE IF isSafeCommand(cmd) # Null                                        \* 104-113
  THEN AutoApprove(FALSE, isSafeCommand(cmd).group, FALSE, <<>>)
  ELSE IF IsBashLc(cmd)
  THEN IF tryParseApplyPatch(cmd[3]).found                                 \* 121-124
       THEN canAutoApproveApplyPatch(tryParseApplyPatch(cmd[3]).patch, pol, constrained)
       ELSE IF throws THEN PolicyFallback(pol)                             \* 127-151
       ELSE IF isEntireShellExpressionSafe(parse(cmd[3])) # Null           \* 159-168
       THEN AutoApprove(FALSE, isEntireShellExpressionSafe(parse(cmd[3])).group,
                        FALSE, <<>>)
       ELSE PolicyFallback(pol)
  ELSE PolicyFallback(pol)

InitApproval ==
  /\ InitWith(MaxEvents)
  /\ IdleCalls
  /\ IdleExec
  /\ IdleHandler
  /\ IdleLate
  /\ command \in Commands
  /\ policy \in Policies
  /\ patchConstrained = FALSE
  /\ parseThrew = FALSE
  /\ assessment = NoAssessment
  /\ patchFiles = <<>>
  /\ writableRoots = {}

\* the classifier is called on the command
Assess(constrained, throws) ==
  /\ assessment = NoAssessment
  /\ patchConstrained' = constrained
  /\ parseThrew' = throws
  /\ assessment' = canAutoApprove(command, policy, constrained, throws)
  /\ UNCHANGED <<command, policy, patchFiles, writableRoots, callVars, execVars, handlerVars, lateVars, loopVars>>

NextApproval == \E constrained \in BOOLEAN, throws \in BOOLEAN : Assess(constrained, throws)

SpecApproval == InitApproval /\ [][NextApproval]_vars

\* ------------------------------------------ the patch-path check alone
\* canAutoApprove on a patch, with the files the patch names and the writable
\* roots.  A path is [abs, segs]: whether it starts at the root directory, and
\* its segments; the process works in /w.
MaxPatchFiles == 2

Path(abs, segs) == [abs |-> abs, segs |-> segs]

Cwd == <<"w">>

\* paths a patch can name
CandidatePaths ==
  {Path(FALSE, <<"x">>),                        \* x           -> /w/x
   Path(FALSE, <<"x", "x">>),                   \* x/x         -> /w/x/x
   Path(FALSE, <<"..", "y", "x">>),             \* ../y/x      -> /y/x
   Path(FALSE, <<"..", "x">>),                  \* ../x        -> /x
   Path(FALSE, <<"..x">>),                      \* ..x         -> /w/..x
   Path(FALSE, <<".">>),                        \* .           -> /w
   Path(FALSE, <<"x", "..", "..", "w", "x">>),  \* x/../../w/x -> /w/x
   Path(TRUE, <<"w", "x", "..", "..", "z">>),   \* /w/x/../../z -> /z
   Path(TRUE, <<"y", "x">>)}                    \* /y/x

\* a file of a patch: one it updates or deletes (needed) or one it adds
PatchFileEntries == [kind : {"needed", "added"}, path : CandidatePaths]

RECURSIVE PatchesUpTo(_)
PatchesUpTo(n) ==
  IF n = 0 THEN {<<>>}
  ELSE LET shorter == PatchesUpTo(n - 1)
       IN shorter \cup {Append(t, e) : t \in {u \in shorter : Len(u) = n - 1},
                                       e \in PatchFileEntries}

PatchFileLists == PatchesUpTo(MaxPatchFiles)

\* absolute writable roots, as segments from the root directory
RootChoices == {<<"w">>, <<"w", "x">>, <<"y">>}

\* identify_files_needed / identify_files_added of the patch (251, 255)
FilesOfKind(files, kind) ==
  LET picked == SelectSeq(files, LAMBDA e : e.kind = kind)
  IN [i \in 1..Len(picked) |-> picked[i].path]

\* the segments of an absolute path with . and .. resolved
RECURSIVE Normalize(_, _)
Normalize(segs, acc) ==
  IF segs = <<>> THEN acc
  ELSE IF Head(segs) = "." THEN Normalize(Tail(segs), acc)
  ELSE IF Head(segs) = ".."
  THEN Normalize(Tail(segs), IF acc = <<>> THEN acc ELSE SubSeq(acc, 1, Len(acc) - 1))
  ELSE Normalize(Tail(segs), Append(acc, Head(segs)))

\* path.resolve(candidatePath) (276): the segments of the absolute path
PathResolve(p) == IF p.abs THEN Normalize(p.segs, <<>>) ELSE Normalize(Cwd \o p.segs, <<>>)

\* the number of leading segments two absolute paths share
RECURSIVE CommonPrefix(_, _)
CommonPrefix(a, b) ==
  IF a = <<>> \/ b = <<>> \/ Head(a) # Head(b) THEN 0
  ELSE 1 + CommonPrefix(Tail(a), Tail(b))

\* path.relative(parent, child) (285) of two absolute paths
PathRelative(parent, child) ==
  LET k == CommonPrefix(parent, child)
  IN Path(FALSE, [i \in 1..(Len(parent) - k) |-> ".."] \o SubSeq(child, k + 1, Len(child)))

\* relative.startsWith("..") on the text of a path
StartsWithDotDot(p) == p.segs # <<>> /\ Head(p.segs) \in {"..", "..x"}

\* a containment test that lets paths above the parent through
pathContainsAbove(parent, child) ==
  LET relative == PathRelative(parent, child)
  IN relative.segs # <<>> /\ ~relative.abs

\* pathContains(parent, child) (284-290)
pathContains(parent, child) ==
  LET relative == PathRelative(parent, child)
  IN relative.segs # <<>> /\ ~StartsWithDotDot(relative) /\ ~relative.abs

\* isPathConstrainedTowritablePaths (272-280)
isPathConstrainedTowritablePaths(candidatePath, roots) ==
  \E writablePath \in roots : pathContains(writablePath, PathResolve(candidatePath))

\* allPathsConstrainedTowritablePaths (261-268)
allPathsConstrainedTowritablePaths(candidatePaths, roots) ==
  \A i \in 1..Len(candidatePaths) : isPathConstrainedTowritablePaths(candidatePaths[i], roots)

\* isWritePatchConstrainedToWritablePaths (229-259)
isWritePatchConstrainedToWritablePaths(files, roots) ==
  /\ allPathsConstrainedTowritablePaths(FilesOfKind(files, "needed"), roots)
  /\ allPathsConstrainedTowritablePaths(FilesOfKind(files, "added"), roots)

\* a patch given as [apply_patch, <blob>] or under bash -lc
PatchCommands ==
  {<<Str("apply_patch"), Str("patch")>>,
   <<Str("bash"), Str("-lc"),
     <<"apply_patch", " ", "<", "<", " ", "'", "EOF", "'", "\n", "patch", "\n", "EOF">>>>,
   <<Str("bash"), Str("-lc"), <<"apply_patch", " ", "patch">>>>}

InitPatch ==
  /\ InitWith(MaxEvents)
  /\ IdleCalls
  /\ IdleExec
  /\ IdleHandler
  /\ IdleLate
  /\ command \in PatchCommands
  /\ policy \in Policies
  /\ patchFiles \in PatchFileLists
  /\ writableRoots \in SUBSET RootChoices
  /\ patchConstrained = FALSE
  /\ parseThrew = FALSE
  /\ assessment = NoAssessment

\* the classifier is called on the patch
AssessPatch ==
  /\ assessment = NoAssessment
  /\ patchConstrained' = isWritePatchConstrainedToWritablePaths(patchFiles, writableRoots)
  /\ parseThrew' = FALSE
  /\ assessment' = canAutoApprove(command, policy,
                       isWritePatchConstrainedToWritablePaths(patchFiles, writableRoots), FALSE)
  /\ UNCHANGED <<command, policy, patchFiles, writableRoots, callVars, execVars, handlerVars, lateVars, loopVars>>

NextPatch == AssessPatch

SpecPatch == InitPatch /\ [][NextPatch]_vars

\* ------------------------------------------------ one exec() call alone
\* exec of exec.ts chooses the executor and rawExec (sandbox/raw-exec.ts)
\* spawns the child and settles the promise from the child's events.
\* Lengths stand for buffers: only their sizes matter to the code.
MaxData == 2
MaxTicks == 3
TickMs == 1000
MAX_BUFFER == 1024 * 100                                     \* raw-exec.ts 15
KILL_GRACE_MS == 2000                                        \* raw-exec.ts 160

\* enum SandboxType (interface.ts 1-5)
SandboxTypes == {"none", "macos.seatbelt", "linux.landlock"}

\* execForSandbox (exec.ts 37-38)
ExecForSandbox(sb) == IF sb = "macos.seatbelt" THEN "execWithSeatbelt" ELSE "rawExec"

\* command: empty, so that adaptedCommand[0] is undefined (46-47), or not
ArgvKinds == {"empty", "program"}

\* What spawn(prog, args, fullOptions) (108) does: it returns a child with a
\* pid, returns a child without one and emits `error` later (the program is
\* not found), or throws (an argument with a NUL byte, an argument list the
\* system call refuses); line 108 is inside no try block.
SpawnOutcomes == {"spawned", "failed", "throws"}

\* the caller's abortSignal: not given, not aborted yet, aborted already
AbortSignals == {"absent", "idle", "aborted"}

\* What child.kill(signal) (138) does after process.kill threw: it signals
\* the child and sets child.killed, finds the child gone and returns false,
\* or emits `error` because the signal cannot be delivered.
ChildKills == {"killed", "gone", "error"}

\* sizes of the chunks a data event carries
ChunkSizes == {1, MAX_BUFFER - 1, MAX_BUFFER, MAX_BUFFER + 1}

\* (code, signal) of the exit event: <<>> is null
ExitCodes == {<<>>, <<0>>, <<2>>}
ExitSignals == {<<>>, <<"SIGTERM">>, <<"SIGKILL">>, <<"SIGUNKNOWN">>}

\* os.constants.signals (228-230), the entries the events above can name
OsSignals == [SIGTERM |-> 15, SIGKILL |-> 9]

\* the exit handler's mapping of (code, signal) to an exit code (225-234)
ExitCodeOfTruthy(code, signal) ==
  IF code # <<>> /\ code[1] # 0 THEN code[1]
  ELSE IF signal # <<>> /\ signal[1] \in DOMAIN OsSignals
  THEN 128 + OsSignals[signal[1]]
  ELSE 1
ExitCodeOf(code, signal) ==
  IF code # <<>> THEN code[1]
  ELSE IF signal # <<>> /\ signal[1] \in DOMAIN OsSignals
  THEN 128 + OsSignals[signal[1]]
  ELSE 1

\* numStdoutBytes <= MAX_BUFFER (199, 209)
WithinBufferStrict(n) == n < MAX_BUFFER
WithinBuffer(n) == n <= MAX_BUFFER

\* setTimeout(..., 2000) (156-160): the time the callback is due
TimerDueNow(t) == t
TimerDue(t) == t + KILL_GRACE_MS

SignalSent(signal, target, ok, at) ==
  [signal |-> signal, target |-> target, ok |-> ok, at |-> at]

\* killTarget(signal) (122-148) on a child with pid p: the signals it tries
\* to send, child.killed afterwards and whether child.kill emitted `error`
KillTarget(p, k, signal, groupOk, childKill, at) ==
  IF p = 0 THEN [sent |-> <<>>, killed |-> k, error |-> FALSE]         \* 123-125
  ELSE IF groupOk                                                       \* 130
  THEN [sent |-> <<SignalSent(signal, "group", TRUE, at)>>, killed |-> k,
        error |-> FALSE]
  ELSE [sent |-> <<SignalSent(signal, "group", FALSE, at),              \* 131-142
                   SignalSent(signal, "child", childKill = "killed", at)>>,
        killed |-> k \/ childKill = "killed",
        error |-> childKill = "error"]

\* the results the three places resolve the promise with
ArgvResult ==                                                           \* 48-52
  [stdout |-> 0, stderr |-> 0, message |-> "command[0] is not a string", exitCode |-> 1]
ErrorResult ==                                                          \* 249-253
  [stdout |-> 0, stderr |-> 0, message |-> "String(err)", exitCode |-> 1]
ExitResult(code, signal) ==                                             \* 217-245
  [stdout |-> stdoutChunks, stderr |-> stderrChunks, message |-> "",
   exitCode |-> ExitCodeOf(code, signal)]

InitExec == InitWith(MaxEvents) /\ IdleCalls /\ IdleApproval /\ IdleExec /\ IdleHandler
            /\ IdleLate

\* exec (exec.ts 22-52) and, for the raw executor, exec of raw-exec.ts up to
\* the return of the promise (25-195); an abortSignal that is aborted
\* already runs abortHandler (162-163) before any listener is attached, so
\* an `error` that child.kill emits there is thrown and caught (137-142)
ExecCall(sb, argv, token, outcome, groupOk, childKill) ==
  /\ promise = "none"
  /\ execSandbox' = sb
  /\ launched' = ExecForSandbox(sb)
  /\ IF ExecForSandbox(sb) # "rawExec"
     THEN /\ promise' = "delegated"
          /\ UNCHANGED <<execResult, settledBy, pid, killVars>>
     ELSE IF argv = "empty"                                             \* 46-53
     THEN /\ promise' = "resolved"
          /\ execResult' = ArgvResult
          /\ settledBy' = "argv"
          /\ UNCHANGED <<pid, killVars>>
     ELSE IF outcome = "throws"                                         \* 108
     THEN /\ promise' = "threw"
          /\ UNCHANGED <<execResult, settledBy, pid, killVars>>
     ELSE LET p == IF outcome = "spawned" THEN 1 ELSE 0
              kt == KillTarget(p, FALSE, "SIGTERM", groupOk, childKill, now)
          IN /\ promise' = "pending"
             /\ pid' = p
             /\ abortSignal' = token
             /\ IF token = "aborted"                                    \* 162-163
                THEN /\ signals' = kt.sent                              \* 152
                     /\ killed' = kt.killed
                     /\ killDue' = TimerDue(now)                        \* 156-160
                     /\ abortedAt' = now
                     /\ UNCHANGED lateSignals
                ELSE UNCHANGED <<signals, killed, killDue, abortedAt, lateSignals>>
             /\ UNCHANGED <<execResult, settledBy>>
  /\ UNCHANGED <<exited, exitEvent, stdoutSeen, stderrSeen, now, streamVars,
                 callVars, approvalVars, handlerVars, lateVars, loopVars>>

\* the abort event of the caller's signal: abortHandler (118-161)
Abort(groupOk, childKill) ==
  /\ promise \in {"pending", "resolved"}
  /\ settledBy # "argv"
  /\ abortSignal = "idle"
  /\ abortSignal' = "aborted"
  /\ LET kt == KillTarget(pid, killed, "SIGTERM", groupOk, childKill, now) IN
     /\ signals' = signals \o kt.sent                                   \* 152
     /\ killed' = kt.killed
     /\ killDue' = TimerDue(now)                                        \* 156-160
     /\ abortedAt' = now
     /\ lateSignals' = (lateSignals \/ (exited /\ kt.sent # <<>>))
     /\ IF kt.error /\ promise = "pending"                              \* 248-254
        THEN /\ promise' = "resolved"
             /\ execResult' = ErrorResult
             /\ settledBy' = "error"
             /\ stdoutSeen' = stdoutSeen
             /\ stderrSeen' = stderrSeen
        ELSE UNCHANGED <<promise, execResult, settledBy, stdoutSeen, stderrSeen>>
  /\ UNCHANGED <<execSandbox, launched, pid, exited, exitEvent, now, streamVars,
                 callVars, approvalVars, handlerVars, lateVars, loopVars>>

\* the callback of the timer abortHandler set (156-160)
KillTimer(groupOk, childKill) ==
  /\ killDue # NoTime
  /\ now >= killDue
  /\ killDue' = NoTime
  /\ LET kt == IF ~killed                                               \* 157-159
               THEN KillTarget(pid, killed, "SIGKILL", groupOk, childKill, now)
               ELSE [sent |-> <<>>, killed |-> killed, error |-> FALSE] IN
     /\ signals' = signals \o kt.sent
     /\ killed' = kt.killed
     /\ lateSignals' = (lateSignals \/ (exited /\ kt.sent # <<>>))
     /\ IF kt.error /\ promise = "pending"                              \* 248-254
        THEN /\ promise' = "resolved"
             /\ execResult' = ErrorResult
             /\ settledBy' = "error"
        ELSE UNCHANGED <<promise, execResult, settledBy>>
  /\ UNCHANGED <<execSandbox, launched, pid, exited, exitEvent, abortSignal, abortedAt,
                 stdoutSeen, stderrSeen, now, streamVars,
                 callVars, approvalVars, handlerVars, lateVars, loopVars>>

\* a data event of child.stdout (196-205); the pipe may still deliver after
\* the exit event
StdoutData(n) ==
  /\ promise \in {"pending", "resolved"}
  /\ pid # 0
  /\ dataEvents < MaxData
  /\ dataEvents' = dataEvents + 1
  /\ IF ~hitMaxStdout                                                   \* 197
     THEN /\ numStdoutBytes' = numStdoutBytes + n                       \* 198
          /\ IF WithinBuffer(numStdoutBytes + n)                        \* 199
             THEN stdoutChunks' = stdoutChunks + n /\ UNCHANGED hitMaxStdout
             ELSE hitMaxStdout' = TRUE /\ UNCHANGED stdoutChunks        \* 202
     ELSE UNCHANGED <<numStdoutBytes, stdoutChunks, hitMaxStdout>>
  /\ stdoutSeen' = IF promise = "pending" THEN stdoutSeen + n ELSE stdoutSeen
  /\ UNCHANGED <<execSandbox, launched, promise, execResult, settledBy, pid, exited,
                 exitEvent, stderrSeen, now, killVars, numStderrBytes, hitMaxStderr,
                 stderrChunks, callVars, approvalVars, handlerVars, lateVars, loopVars>>

\* a data event of child.stderr (206-215)
StderrData(n) ==
  /\ promise \in {"pending", "resolved"}
  /\ pid # 0
  /\ dataEvents < MaxData
  /\ dataEvents' = dataEvents + 1
  /\ IF ~hitMaxStderr                                                   \* 207
     THEN /\ numStderrBytes' = numStderrBytes + n                       \* 208
          /\ IF WithinBuffer(numStderrBytes + n)                        \* 209
             THEN stderrChunks' = stderrChunks + n /\ UNCHANGED hitMaxStderr
             ELSE hitMaxStderr' = TRUE /\ UNCHANGED stderrChunks        \* 212
     ELSE UNCHANGED <<numStderrBytes, stderrChunks, hitMaxStderr>>
  /\ stderrSeen' = IF promise = "pending" THEN stderrSeen + n ELSE stderrSeen
  /\ UNCHANGED <<execSandbox, launched, promise, execResult, settledBy, pid, exited,
                 exitEvent, stdoutSeen, now, killVars, numStdoutBytes, hitMaxStdout,
                 stdoutChunks, callVars, approvalVars, handlerVars, lateVars, loopVars>>

\* the exit event of the child (216-246); resolve on a settled promise does
\* nothing
ChildExit(code, signal) ==
  /\ promise \in {"pending", "resolved"}
  /\ pid # 0
  /\ ~exited
  /\ exited' = TRUE
  /\ exitEvent' = [code |-> code, signal |-> signal]
  /\ IF promise = "pending"
     THEN /\ promise' = "resolved"
          /\ execResult' = ExitResult(code, signal)
          /\ settledBy' = "exit"
     ELSE UNCHANGED <<promise, execResult, settledBy>>
  /\ UNCHANGED <<execSandbox, launched, pid, stdoutSeen, stderrSeen, now, killVars,
                 streamVars, callVars, approvalVars, handlerVars, lateVars, loopVars>>

\* the error event of the child (248-254): the spawn failed, or the kill at
\* the end of options.timeout (exec.ts 41) could not be delivered
ChildError ==
  /\ promise = "pending"
  /\ promise' = "resolved"
  /\ execResult' = ErrorResult
  /\ settledBy' = "error"
  /\ UNCHANGED <<execSandbox, launched, pid, exited, exitEvent, stdoutSeen, stderrSeen,
                 now, killVars, streamVars, callVars, approvalVars, handlerVars, lateVars, loopVars>>

\* time passes; only the pending timer observes it
Tick ==
  /\ killDue # NoTime
  /\ now < MaxTicks * TickMs
  /\ now' = now + TickMs
  /\ UNCHANGED <<execSandbox, launched, promise, execResult, settledBy, pid, exited,
                 exitEvent, stdoutSeen, stderrSeen, killVars, streamVars,
                 callVars, approvalVars, handlerVars, lateVars, loopVars>>

NextExec ==
  \/ \E sb \in SandboxTypes, argv \in ArgvKinds, token \in AbortSignals,
        outcome \in SpawnOutcomes, groupOk \in BOOLEAN, childKill \in ChildKills :
       ExecCall(sb, argv, token, outcome, groupOk, childKill)
  \/ \E groupOk \in BOOLEAN, childKill \in ChildKills : Abort(groupOk, childKill)
  \/ \E groupOk \in BOOLEAN, childKill \in ChildKills : KillTimer(groupOk, childKill)
  \/ \E n \in ChunkSizes : StdoutData(n)
  \/ \E n \in ChunkSizes : StderrData(n)
  \/ \E code \in ExitCodes, signal \in ExitSignals : ChildExit(code, signal)
  \/ ChildError
  \/ Tick

SpecExec == InitExec /\ [][NextExec]_vars

\* ------------------------------------- one handleExecCommand call alone
\* handleFunctionCall awaits handleExecCommand (agent-loop.ts 445-457) and
\* puts its outputText and metadata into the function_call_output.  The file
\* of handleExecCommand is not among the sources: what it does with the
\* assessment and with the review is taken from the specification (4.4 Exec
\* Handler and the failure table).  execApplyPatch (exec.ts 54-82) and the two
\* getCommandConfirmation callbacks (cli.tsx 467-471,
\* terminal-chat-response-item.tsx 479-515) are taken from their code.
MaxAsks == 3

\* ReviewDecision, as the specification names its members
ReviewDecisions == {"YES", "YES_ALWAYS", "EXPLAIN", "NO_CONTINUE", "NO_EXIT"}

\* the assessments canAutoApprove returns, by type, runInSandbox, applyPatch
Assessments ==
  {Reject}
  \cup {AutoApprove(sb, "", hasPatch, <<>>) : sb \in BOOLEAN, hasPatch \in BOOLEAN}
  \cup {AskUser(hasPatch, <<>>) : hasPatch \in BOOLEAN}

ConfirmModes == {"interactive", "quiet"}

\* customDenyMessage: absent or given
DenyMessages == {"", "custom"}

\* what process_patch (exec.ts 61-66) does: it returns its summary, throws
\* an Error, or throws a value that has no message
PatchOutcomes == {"applied", "throws Error", "throws value"}

\* exit codes of a command that was run
RunExitCodes == {0, 1}

\* execApplyPatch (exec.ts 54-82)
execApplyPatchNoCatch(outcome) ==
  IF outcome = "applied"
  THEN [threw |-> FALSE, stdout |-> "summary", stderr |-> "", exitCode |-> 0]
  ELSE [threw |-> TRUE, stdout |-> "", stderr |-> "", exitCode |-> 0]
execApplyPatch(outcome) ==
  IF outcome = "applied"                                                \* 60-71
  THEN [threw |-> FALSE, stdout |-> "summary", stderr |-> "", exitCode |-> 0]
  ELSE [threw |-> FALSE, stdout |-> "",                                 \* 72-80
        stderr |-> IF outcome = "throws Error" THEN "error.message" ELSE "String(error)",
        exitCode |-> 1]

\* getCommandConfirmation of quiet mode (cli.tsx 467-471)
QuietConfirmationYes == "YES"
QuietConfirmation == "NO_CONTINUE"

\* getCommandConfirmation of the terminal chat
\* (terminal-chat-response-item.tsx 479-515): the first answer, or the second
\* one when the first asks for an explanation
ChatConfirmation(first, second) == IF first = "EXPLAIN" THEN second ELSE first

\* the review the callback of this mode returns
Confirmation(mode, first, second) ==
  IF mode = "quiet" THEN QuietConfirmation ELSE ChatConfirmation(first, second)

\* outputText and metadata of a command that was run (specification: "shape
\* result"; a failure carries the diagnostic and the exit code)
ShapeResult(res) ==
  [kind |-> "result", text |-> IF res.stdout # "" THEN res.stdout ELSE res.stderr,
   exit_code |-> res.exitCode]

\* the result of the command: of execApplyPatch when it is a patch, of exec
\* otherwise
RunResult(isPatch, outcome, code) ==
  IF isPatch THEN execApplyPatch(outcome)
  ELSE [threw |-> FALSE, stdout |-> IF code = 0 THEN "stdout" ELSE "",
        stderr |-> IF code = 0 THEN "" ELSE "stderr", exitCode |-> code]

InitHandler ==
  /\ InitWith(MaxEvents)
  /\ IdleCalls
  /\ IdleApproval
  /\ IdleExec
  /\ IdleLate
  /\ classified \in Assessments
  /\ confirmMode \in ConfirmModes
  /\ handlerPc = "idle"
  /\ reviews = <<>>
  /\ requests = 0
  /\ executed = <<>>
  /\ outputText = NoOutput
  /\ patchOutcome = "none"
  /\ patchResult = NoPatchResult

\* the command is run, sandboxed or not, and its result shaped
Execute(sandboxed, outcome, code) ==
  LET res == RunResult(classified.applyPatch, outcome, code) IN
  /\ executed' = Append(executed, [how |-> IF classified.applyPatch THEN "patch" ELSE "exec",
                                   sandboxed |-> sandboxed])
  /\ patchOutcome' = IF classified.applyPatch THEN outcome ELSE patchOutcome
  /\ patchResult' = IF classified.applyPatch THEN res ELSE patchResult
  /\ IF res.threw
     THEN handlerPc' = "threw" /\ UNCHANGED outputText
     ELSE handlerPc' = "done" /\ outputText' = ShapeResult(res)

\* handleExecCommand up to its first await: reject, run, or ask
HandleExecCommand(outcome, code) ==
  /\ handlerPc = "idle"
  /\ IF classified.type = "reject"
     THEN /\ handlerPc' = "done"
          /\ outputText' = [kind |-> "rejected", text |-> "reason", exit_code |-> 1]
          /\ UNCHANGED <<executed, patchOutcome, patchResult>>
     ELSE IF classified.type = "auto-approve"
     THEN Execute(classified.runInSandbox, outcome, code)
     ELSE /\ handlerPc' = "asking"
          /\ UNCHANGED <<executed, outputText, patchOutcome, patchResult>>
  /\ UNCHANGED <<classified, confirmMode, reviews, requests,
                 callVars, approvalVars, execVars, lateVars, loopVars>>

\* getCommandConfirmation returns and handleExecCommand acts on the review
Confirm(first, second, deny, outcome, code) ==
  /\ handlerPc = "asking"
  /\ Len(reviews) < MaxAsks
  /\ LET review == Confirmation(confirmMode, first, second) IN
     /\ reviews' = Append(reviews, review)
     /\ requests' = IF confirmMode = "quiet" THEN requests
                    ELSE IF first = "EXPLAIN" THEN requests + 2 ELSE requests + 1
     /\ IF review \in {"YES", "YES_ALWAYS"}
        THEN Execute(FALSE, outcome, code)
        ELSE IF review = "NO_CONTINUE"
        THEN /\ handlerPc' = "done"
             /\ outputText' = [kind |-> "deny", text |-> deny, exit_code |-> 1]
             /\ UNCHANGED <<executed, patchOutcome, patchResult>>
        ELSE IF review = "NO_EXIT"
        THEN /\ handlerPc' = "cancelled"
             /\ UNCHANGED <<executed, outputText, patchOutcome, patchResult>>
        ELSE UNCHANGED <<handlerPc, executed, outputText, patchOutcome, patchResult>>
  /\ UNCHANGED <<classified, confirmMode, callVars, approvalVars, execVars, lateVars, loopVars>>

NextHandler ==
  \/ \E outcome \in PatchOutcomes, code \in RunExitCodes : HandleExecCommand(outcome, code)
  \/ \E first \in ReviewDecisions, second \in ReviewDecisions, deny \in DenyMessages,
        outcome \in PatchOutcomes, code \in RunExitCodes :
       Confirm(first, second, deny, outcome, code)

SpecHandler == InitHandler /\ [][NextHandler]_vars

\* --------------------------------------------- one process_patch call alone
\* execApplyPatch calls process_patch with the functions that read, write
\* and unlink files (exec.ts 60-66).  The file of process_patch is not among
\* the sources: what it does is taken from the specification (4.2 Patch
\* Engine).  A file is its content, or Absent; a hunk matches or does not.
MaxOps == 3
Absent == "absent"
EnginePaths == {"a", "b"}
PatchOp(kind, path, hunksMatch) == [kind |-> kind, path |-> path, hunksMatch |-> hunksMatch]
PatchOps ==
  {PatchOp(kind, path, TRUE) : kind \in {"Add", "Delete", "Update"}, path \in EnginePaths}
  \cup {PatchOp("Update", path, FALSE) : path \in EnginePaths}
OpsUpTo(n) == UNION {[1..k -> PatchOps] : k \in 0..n}
FileStates == [EnginePaths -> {Absent, "old"}]

\* the operation fails on these files: Add on a target that exists, Delete
\* on one that does not, Update on one that does not or whose hunks do not match
OpFails(op, files) ==
  IF op.kind = "Add" THEN files[op.path] # Absent
  ELSE IF op.kind = "Delete" THEN files[op.path] = Absent
  ELSE files[op.path] = Absent \/ ~op.hunksMatch

\* the content the operation leaves at its path
ContentAfter(op) ==
  IF op.kind = "Add" THEN "added" ELSE IF op.kind = "Delete" THEN Absent ELSE "updated"

ApplyOp(op, files) == [files EXCEPT ![op.path] = ContentAfter(op)]

\* the operations from the i-th on, in declaration order, up to the first
\* that fails
RECURSIVE ApplyOps(_, _, _)
ApplyOps(ops, i, files) ==
  IF i > Len(ops) THEN [files |-> files, failedAt |-> 0]
  ELSE IF OpFails(ops[i], files) THEN [files |-> files, failedAt |-> i]
  ELSE ApplyOps(ops, i + 1, ApplyOp(ops[i], files))

\* process_patch: no rollback when an operation fails
process_patchRollback(ops, files) ==
  LET r == ApplyOps(ops, 1, files) IN
  IF r.failedAt # 0 THEN [files |-> files, failedAt |-> r.failedAt] ELSE r
process_patch(ops, files) == ApplyOps(ops, 1, files)

InitEngine ==
  /\ InitWith(MaxEvents)
  /\ IdleCalls
  /\ IdleApproval
  /\ IdleExec
  /\ IdleHandler
  /\ IdleInput
  /\ engineBefore \in FileStates
  /\ engineFiles = engineBefore
  /\ engineOps \in OpsUpTo(MaxOps)
  /\ engineStatus = "idle"
  /\ engineFailedAt = 0

\* the call of process_patch (exec.ts 61-66)
ProcessPatch ==
  /\ engineStatus = "idle"
  /\ LET r == process_patch(engineOps, engineFiles) IN
     /\ engineFiles' = r.files
     /\ engineFailedAt' = r.failedAt
     /\ engineStatus' = IF r.failedAt = 0 THEN "done" ELSE "failed"
  /\ UNCHANGED <<engineBefore, engineOps, inputVars, callVars, approvalVars, execVars,
                 handlerVars, loopVars>>

NextEngine == ProcessPatch

SpecEngine == InitEngine /\ [][NextEngine]_vars

\* -------------------------------------------------- the text input alone
\* TextInput under UncontrolledTextInput (part_001 95-375), with focus and
\* showCursor at their defaults (true) and an onSubmit handler: value is the
\* wrapper's state, cursorOffset and cursorWidth the component's.  A string is
\* the sequence of its characters.
MaxValueLen == 3

\* the characters a value is made of: a letter, a blank, a backslash, a newline
WhitespaceChars == {" ", "\n"}
InputChars == {"a", " ", "\\", "\n"}

\* what a key event carries as `input`: one character, or a pasted text
Inputs == {<<"a">>, <<" ">>, <<"\\">>, <<"a", "a">>}

InitialValues == {<<>>, <<"a">>}

Keys ==
  {"upArrow", "return", "meta-return", "ctrl-a", "ctrl-e", "ctrl-b", "ctrl-f",
   "ctrl-d", "ctrl-k", "ctrl-u", "ctrl-w", "meta-backspace", "meta-b", "meta-f",
   "leftArrow", "rightArrow", "backspace", "input"}

\* an index of String.prototype.slice on a string of length n: a negative
\* index counts from the end, every index is clamped to 0..n
SliceIndex(i, n) ==
  IF i < 0 THEN (IF n + i < 0 THEN 0 ELSE n + i) ELSE (IF i > n THEN n ELSE i)

\* s.slice(a, b)
Slice(s, a, b) ==
  LET x == SliceIndex(a, Len(s))
      y == SliceIndex(b, Len(s))
  IN IF x >= y THEN <<>> ELSE SubSeq(s, x + 1, y)

\* s.slice(a)
SliceFrom(s, a) == Slice(s, a, Len(s))

\* the length of the longest suffix of s made of characters of set
RECURSIVE TrailingCount(_, _)
TrailingCount(s, set) ==
  IF s # <<>> /\ s[Len(s)] \in set
  THEN 1 + TrailingCount(SubSeq(s, 1, Len(s) - 1), set)
  ELSE 0

\* the indices (from 0) at which /[\s,.;!?]+/g matches in s: where a run of
\* separators starts
SeparatorRuns(s) ==
  {i - 1 : i \in {k \in 1..Len(s) :
                    /\ s[k] \in WhitespaceChars
                    /\ (k = 1 \/ s[k - 1] \notin WhitespaceChars)}}

\* prompt.slice(0, cursorOffset).replace(/[\s,.;!?]+$/, "") (62-64, 277-279)
StringToCursorOffset(prompt, c) ==
  LET left == Slice(prompt, 0, c)
  IN SubSeq(left, 1, Len(left) - TrailingCount(left, WhitespaceChars))

\* findPrevWordJump (57-78), and lastMatch of the meta-backspace branch (273-289)
findPrevWordJump(prompt, c) ==
  LET runs == SeparatorRuns(StringToCursorOffset(prompt, c))
      lastMatch == IF runs = {} THEN 0 ELSE CHOOSE i \in runs : \A j \in runs : j <= i
  IN IF lastMatch # 0 THEN lastMatch + 1 ELSE lastMatch

\* findNextWordJump (80-93)
findNextWordJump(prompt, c) ==
  LET later == {i \in SeparatorRuns(prompt) : i > c}
  IN IF later = {} THEN Len(prompt)
     ELSE (CHOOSE i \in later : \A j \in later : i <= j) + 1

\* the length of the match of /\s*\S+$/ in left, 0 when there is none (264-266)
WordMatchLen(left) ==
  LET word == TrailingCount(left, InputChars \ WhitespaceChars)
  IN IF word = 0 THEN 0
     ELSE word + TrailingCount(SubSeq(left, 1, Len(left) - word), WhitespaceChars)

Handled(v, c, w) == [value |-> v, cursorOffset |-> c, cursorWidth |-> w, returned |-> FALSE]
EarlyReturn(v, c, w) == [value |-> v, cursorOffset |-> c, cursorWidth |-> w, returned |-> TRUE]

\* the branches of the useInput handler (169-328): nextValue, nextCursorOffset
\* and nextCursorWidth before the clamps, or its early return
HandleKey(originalValue, c, w, key, input) ==
  LET n == Len(originalValue) IN
  IF key = "upArrow" THEN EarlyReturn(originalValue, c, w)                  \* 169-177
  ELSE IF key = "meta-return"                                                \* 186-199
  THEN Handled(Slice(originalValue, 0, c) \o <<"\n">> \o Slice(originalValue, c, n), c + 1, 0)
  ELSE IF key = "return"                                                     \* 200-221
  THEN IF c = n /\ TrailingCount(originalValue, {"\\"}) = 1
       THEN Handled(Append(originalValue, "\n"), n + 1, 0)
       ELSE EarlyReturn(originalValue, c, w)
  ELSE IF key = "ctrl-a" THEN Handled(originalValue, 0, 0)                   \* 223-224
  ELSE IF key = "ctrl-e" THEN Handled(originalValue, n, 0)                   \* 225-230
  ELSE IF key = "ctrl-b"                                                     \* 231-236
  THEN Handled(originalValue, IF c - 1 > 0 THEN c - 1 ELSE 0, 0)
  ELSE IF key = "ctrl-f"                                                     \* 237-242
  THEN Handled(originalValue, IF c + 1 < n THEN c + 1 ELSE n, 0)
  ELSE IF key = "ctrl-d"                                                     \* 243-250
  THEN IF c < n
       THEN Handled(Slice(originalValue, 0, c) \o SliceFrom(originalValue, c + 1), c, 0)
       ELSE Handled(originalValue, c, 0)
  ELSE IF key = "ctrl-k" THEN Handled(Slice(originalValue, 0, c), c, 0)      \* 251-254
  ELSE IF key = "ctrl-u" THEN Handled(SliceFrom(originalValue, c), 0, 0)     \* 255-259
  ELSE IF key = "ctrl-w"                                                     \* 260-271
  THEN LET left == Slice(originalValue, 0, c)
           cut == IF WordMatchLen(left) # 0 THEN WordMatchLen(left) ELSE c
       IN Handled(Slice(originalValue, 0, c - cut) \o SliceFrom(originalValue, c),
                  c - cut, 0)
  ELSE IF key = "meta-backspace"                                             \* 272-296
  THEN LET lastMatch == findPrevWordJump(originalValue, c)
       IN Handled(Slice(StringToCursorOffset(originalValue, c), 0, lastMatch)
                    \o Slice(originalValue, c, n),
                  lastMatch, 0)
  ELSE IF key = "meta-b" THEN Handled(originalValue, findPrevWordJump(originalValue, c), 0)
  ELSE IF key = "meta-f" THEN Handled(originalValue, findNextWordJump(originalValue, c), 0)
  ELSE IF key = "leftArrow" THEN Handled(originalValue, c - 1, 0)            \* 301-304
  ELSE IF key = "rightArrow" THEN Handled(originalValue, c + 1, 0)           \* 305-308
  ELSE IF key = "backspace"                                                  \* 309-317
  THEN IF c > 0
       THEN Handled(Slice(originalValue, 0, c - 1) \o Slice(originalValue, c, n), c - 1, 0)
       ELSE Handled(originalValue, c, 0)
  ELSE Handled(Slice(originalValue, 0, c) \o input \o Slice(originalValue, c, n), \* 318-328
               c + Len(input), IF Len(input) > 1 THEN Len(input) ELSE 0)

\* the two clamps before setState (330-336): they test the offset the handler
\* was entered with
ClampCursor(c, next, n) ==
  IF c > n THEN n ELSE IF c < 0 THEN 0 ELSE next

\* the effect on [originalValue, focus, showCursor] (112-133), run after the
\* value changed
ValueEffect(st, newValue) ==
  IF st.cursorOffset = 0 \/ st.cursorOffset > Len(newValue) - 1
  THEN [cursorOffset |-> Len(newValue), cursorWidth |-> 0]
  ELSE st

InitInput ==
  /\ InitWith(MaxEvents)
  /\ IdleCalls
  /\ IdleApproval
  /\ IdleExec
  /\ IdleHandler
  /\ IdleEngine
  /\ value \in InitialValues                                                 \* 371
  /\ cursorOffset = Len(value)                                               \* 105-108
  /\ cursorWidth = 0

\* one key event: the handler (167-348), setState, onChange = setValue of the
\* wrapper (373), and the effect of the render that follows a changed value
KeyEvent(key, input) ==
  /\ key # "input" => input = <<"a">>
  /\ LET h == HandleKey(value, cursorOffset, cursorWidth, key, input)
         st == [cursorOffset |-> ClampCursor(cursorOffset, h.cursorOffset, Len(value)),
                cursorWidth |-> h.cursorWidth]
         after == IF h.value # value THEN ValueEffect(st, h.value) ELSE st
     IN IF h.returned
        THEN UNCHANGED inputVars
        ELSE /\ Len(h.value) <= MaxValueLen
             /\ value' = h.value                                             \* 343-345
             /\ cursorOffset' = after.cursorOffset                           \* 338-341
             /\ cursorWidth' = after.cursorWidth
  /\ UNCHANGED <<engineVars, callVars, approvalVars, execVars, handlerVars, loopVars>>

NextInput == \E key \in Keys, input \in Inputs : KeyEvent(key, input)

SpecInput == InitInput /\ [][NextInput]_vars

\* ============================================================ properties
\* run r makes a step that invokes handleExecCommand (agent-loop.ts 450)
StartsTool(r) == pc'[r] = "tool" /\ (pc[r] # "tool" \/ tool'[r].call # tool[r].call)

\* run r makes a step that issues responses.create (agent-loop.ts 629)
OpensRequest(r) == pc'[r] = "request" /\ (pc[r] # "request" \/ attempt'[r] # attempt[r])

\* the state of the session that a caller of the instance can observe or that
\* a later run() depends on
sessionVars == <<instVars, loading, uiLastResponseId, delivered, loadTrue, loadFalse>>

\* C1: every function call the model emits is answered by exactly one
\* function_call_output: never two are sent for a call-id, and once the first
\* request of the run() that started after the call is accepted, one was sent.
C1_ExactlyOneOutput ==
  \A c \in CallIds :
    /\ sent[c] <= 1
    /\ (callNext[c] \in Runs /\ pc[callNext[c]] \in {"stream", "tool", "flushWait"})
         => sent[c] = 1

\* C2: between cancel() and the next run() (while canceled stays set) no step
\* removes a call-id from pendingAborts.
C2_PendingAbortsRetained ==
  [][(canceled /\ canceled') => pendingAborts \subseteq pendingAborts']_vars

\* C3: no item staged before a cancel() is delivered to on_item after it,
\* neither by its delivery timer nor by flush.
C3_NoDeliveryAfterCancel ==
  \A k \in 1..Len(delivered) :
    delivered[k].via \in {"timer", "flush"} => ~delivered[k].late

\* C3 happens: a slot staged before a cancel() is still undelivered after its
\* timer and the flush of its run have fired, both after a later run() had
\* reset canceled.
C3_Witness ==
  \E r \in Runs : \E i \in 1..Len(staged[r]) :
    /\ staged[r][i].live
    /\ staged[r][i].epoch < ncancel
    /\ pc[r] = "done"
    /\ ~canceled /\ ~hardAborted
    /\ \A t \in 1..Len(timers) : timers[t].run # r
    /\ fenced >= 2

\* C4: a run that was cancelled never invokes the exec handler again.
C4_NoToolCallAfterCancel ==
  [][\A r \in Runs : Late(r) => ~StartsTool(r)]_vars

\* C5: after cancel() or terminate() a run in flight opens no further model
\* request.
C5_NoRequestAfterCancel ==
  [][\A r \in Runs : (Late(r) \/ (hardAborted /\ pc[r] # "idle")) => ~OpensRequest(r)]_vars

\* C6: a cancelled run delivers no error or system message to on_item.
C6_CancellationSilent ==
  \A k \in 1..Len(delivered) :
    delivered[k].via = "error" => ~delivered[k].cancelled

\* C7: a cancel() that finds a stream active aborts that stream's controller.
C7_CancelAbortsStream ==
  [][(ncancel' # ncancel /\ currentStream # 0) => currentStream \in streamAborted']_vars

\* C8: a run() called after terminate() throws without on_loading(true),
\* without an item and without a model request; cancel() and terminate() on a
\* terminated instance change nothing.
C8_TerminatedInstance ==
  /\ [](\A r \in Runs : termAtStart[r] =>
          /\ pc[r] = "thrown"
          /\ loadTrue[r] = 0
          /\ attempt[r] = 0
          /\ staged[r] = <<>>
          /\ \A k \in 1..Len(delivered) : delivered[k].run # r)
  /\ [][(terminated /\ (Cancel \/ Terminate)) =>
          UNCHANGED <<sessionVars, runVars, timers, streamAborted>>]_vars

\* C8 happens: a run() was called on a terminated instance and threw, and
\* cancel() or terminate() was called on the terminated instance.
C8_Witness ==
  \E r \in Runs : termAtStart[r] /\ pc[r] = "thrown" /\ noopCalls > 0

\* C9: after terminate() no run invokes the exec handler, nothing is delivered
\* to on_item, and the abort handle of every tool call in progress is aborted.
C9_TerminateSubsumes ==
  /\ [][hardAborted => (delivered' = delivered /\ \A r \in Runs : ~StartsTool(r))]_vars
  /\ [](hardAborted => \A r \in Runs : pc[r] = "tool" => tool[r].ctl \in abortedCtl)

\* C10: a delivery timer or flush that fires when the generation differs from
\* the one of the run that scheduled it delivers nothing, emits no on_loading
\* and changes no state of the session.
C10_StaleCallbackNoOp ==
  [][\A i \in 1..Len(timers) :
       ((DeliveryTimer(i) \/ Flush(i)) /\ thisGeneration[timers[i].run] # generation)
         => UNCHANGED sessionVars]_vars

\* C11: a run() on a live instance starts its first turn input with one
\* "aborted" function_call_output per pending call-id, before the caller's
\* input, and empties pendingAborts; only a newly streamed function call adds
\* to the set, so a following run() without one synthesizes nothing.
C11_DrainPendingAborts ==
  /\ [][(nextRun' # nextRun /\ ~terminated) =>
          LET r == nextRun
              n == Cardinality(pendingAborts)
              ti == turnInput'[r]
          IN /\ pendingAborts' = {}
             /\ Len(ti) = n + 1
             /\ ti[n + 1] = UserInput(r)
             /\ {ti[i].id : i \in 1..n} = pendingAborts
             /\ \A i \in 1..n : /\ ti[i].type = "function_call_output"
                                /\ ti[i].output = "aborted"]_vars
  /\ [][nextCall' = nextCall => pendingAborts' \subseteq pendingAborts]_vars

\* C11 happens: a run() has started with a synthetic aborted output ahead of
\* the caller's input.
C11_Witness ==
  \E r \in Runs :
    /\ pc[r] = "request"
    /\ Len(turnInput[r]) = 2
    /\ turnInput[r][1].type = "function_call_output"
    /\ turnInput[r][1].output = "aborted"
    /\ turnInput[r][2] = UserInput(r)
    /\ pendingAborts = {}

\* the instance as a cancel() leaves it: cancelled, no current stream, a fresh
\* exec abort controller, every run started so far stale, the UI not loading
\* and holding no last response id unless a call-id is pending
PostCancel ==
  /\ canceled /\ ~terminated
  /\ currentStream = 0
  /\ execAbortController # 0 /\ execAbortController \notin abortedCtl
  /\ \A r \in Runs : thisGeneration[r] # generation
  /\ ~loading
  /\ pendingAborts = {} => uiLastResponseId = 0

\* C12: cancel() is idempotent.  A cancel() on a live instance leaves it in
\* PostCancel, and a cancel() called in such a state changes nothing a caller
\* or a run can tell apart: the flags, pendingAborts, the staleness of every
\* run, the freshness of the exec abort controller, the values the UI holds
\* and the items delivered are the same (the generation counter itself and
\* the controller object are new each time).
C12_CancelIdempotent ==
  /\ [][(Cancel /\ ~terminated) => PostCancel']_vars
  /\ [][(Cancel /\ PostCancel) =>
          /\ PostCancel'
          /\ UNCHANGED <<canceled, terminated, hardAborted, pendingAborts, currentStream,
                         alreadyProcessed, loading, uiLastResponseId, delivered,
                         streamAborted, runVars, timers>>]_vars

\* C12 happens: cancel() was called twice while a run awaited its first
\* request, with nothing but the two calls after the run() call.
C12_Witness ==
  /\ PostCancel
  /\ ncancel = 2
  /\ nextRun = 2
  /\ pc[1] = "request"
  /\ generation = 3
  /\ Len(timers) = 1

\* C13: a request is attempted at most five times; a timeout, connection or
\* 5xx failure of an attempt before the fifth is followed by the next attempt,
\* with nothing surfaced; a successful attempt ends the retrying.
C13_AtMostFiveAttempts ==
  /\ [](\A r \in Runs : attempt[r] <= 5)
  /\ [][\A r \in Runs, kind \in {"timeout", "connection", "server"} :
          (RequestFails(r, kind, NoHint) /\ attempt[r] < 5) =>
             /\ pc'[r] = "request"
             /\ attempt'[r] = attempt[r] + 1
             /\ delivered' = delivered /\ loading' = loading]_vars
  /\ [][\A r \in Runs : RequestSucceeds(r) =>
          (attempt'[r] = 0 /\ pc'[r] = "stream")]_vars

\* C13 happens: four attempts of a request have failed and the fifth is open.
C13_Witness ==
  \E r \in Runs : pc[r] = "request" /\ attempt[r] = 5

\* the system messages run r has given to on_item
ErrorsOf(r) == {k \in 1..Len(delivered) : delivered[k].run = r /\ delivered[k].via = "error"}

\* C14: when the fifth attempt of a request fails with a transient or a
\* rate-limit error, the run delivers one system message, emits
\* on_loading(false) and returns without throwing; it had delivered none
\* before, and it delivers no other and opens no request afterwards.
C14_RetryExhaustion ==
  /\ [][\A r \in Runs, kind \in {"timeout", "connection", "server", "rate_limit"} :
          ((\E hint \in AllHints : RequestFails(r, kind, hint)) /\ attempt[r] = 5) =>
             /\ pc'[r] = "done"
             /\ ErrorsOf(r) = {}
             /\ Len(delivered') = Len(delivered) + 1
             /\ delivered'[Len(delivered')].run = r
             /\ delivered'[Len(delivered')].item.type = "system"
             /\ loading' = FALSE
             /\ loadFalse'[r] = loadFalse[r] + 1]_vars
  /\ [](\A r \in Runs : Cardinality(ErrorsOf(r)) <= 1)
  /\ [][\A r \in Runs : pc[r] = "done" => pc'[r] = "done"]_vars

\* C14 happens: the first run() exhausted its five attempts and ended with a
\* network-error or rate-limit message.
C14_Witness ==
  /\ pc[1] = "done"
  /\ \E k \in ErrorsOf(1) : delivered[k].item.output \in {"network_error", "rate_limit"}
  /\ loadFalse[1] = 1
  /\ ~loading

\* a hint that is a decimal number: digits, or digits . digits
IsDecimal(h) ==
  /\ h # <<>>
  /\ \A i \in 1..Len(h) : h[i] \in Digits \/ h[i] = "."
  /\ Cardinality({i \in 1..Len(h) : h[i] = "."}) <= 1
  /\ h[1] # "." /\ h[Len(h)] # "."

\* where the decimal point of h stands (past the end when it has none)
PointOf(h) ==
  IF \E i \in 1..Len(h) : h[i] = "." THEN CHOOSE i \in 1..Len(h) : h[i] = "."
  ELSE Len(h) + 1

\* the milliseconds the digits of h from position i on stand for, the number
\* being read in seconds
RECURSIVE MillisFrom(_, _)
MillisFrom(h, i) ==
  IF i > Len(h) THEN 0
  ELSE (IF i < PointOf(h) THEN DigitVal(h[i]) * 1000 * 10 ^ (PointOf(h) - 1 - i)
        ELSE IF i = PointOf(h) THEN 0
        ELSE IF i - PointOf(h) <= 3 THEN DigitVal(h[i]) * 10 ^ (3 - (i - PointOf(h)))
        ELSE 0)
       + MillisFrom(h, i + 1)

\* C15: after a rate-limit failure of attempt k, 1 <= k <= 4, the run sleeps
\* 2500 * 2^(k-1) ms when the message has no hint and N * 1000 ms when it says
\* "try again in <N>s" (1300 ms for 1.3s), and then makes attempt k+1.
C15_RateLimitBackoff ==
  /\ [][\A r \in Runs, hint \in AllHints :
          (RequestFails(r, "rate_limit", hint) /\ attempt[r] \in 1..4) =>
             /\ pc'[r] = "backoff"
             /\ attempt'[r] = attempt[r]
             /\ hint = NoHint => delayMs'[r] = 2500 * 2 ^ (attempt[r] - 1)
             /\ IsDecimal(hint) => delayMs'[r] = MillisFrom(hint, 1)
             /\ hint = <<"1", ".", "3">> => delayMs'[r] = 1300]_vars
  /\ [][\A r \in Runs : BackoffWake(r) =>
          (pc'[r] = "request" /\ attempt'[r] = attempt[r] + 1)]_vars

\* C15 happens: the second attempt hit the rate limit with a 1.3 s hint and
\* the run sleeps 1300 ms instead of 5000.
C15_Witness ==
  \E r \in Runs : pc[r] = "backoff" /\ attempt[r] = 2 /\ delayMs[r] = 1300

\* the failures the retry policy calls non-retryable: about the context
\* length, or an HTTP 4xx other than 429
NonRetryableKinds ==
  {kind \in RequestErrorKinds :
     \/ ErrorOf(kind).maxTokens /\ ErrorOf(kind).invalidRequest
     \/ ErrorOf(kind).status \in (400..499) \ {429}}

HandlerPending(x) == \E r \in Runs : pc[r] = "tool" /\ tool[r].resp = x

\* C17: on_last_response_id is called once for each response.completed event
\* and with that response's id: never twice with one id, never with an id that
\* was not completed, once as soon as the event's handler is over, and so
\* before the run that received the event opens its next request.
C17_LastResponseIdOnce ==
  /\ [](\A x \in RespIds :
          /\ lastResponseIdCalls[x] <= 1
          /\ (lastResponseIdCalls[x] = 1) => (completedIn[x] # 0)
          /\ (completedIn[x] # 0 /\ ~HandlerPending(x)) => (lastResponseIdCalls[x] = 1))
  /\ [][\A x \in RespIds :
          (lastResponseIdCalls'[x] # lastResponseIdCalls[x]) => (uiLastResponseId' = x)]_vars
  /\ [][\A r \in Runs : OpensRequest(r) =>
          \A x \in RespIds : (completedIn[x] = r) => (lastResponseIdCalls'[x] = 1)]_vars

\* C17 happens: a run received response.completed with a tool call in the
\* response, reported the response id when the tool had returned, and has
\* opened its next request with the tool's output.
C17_Witness ==
  \E r \in Runs, x \in RespIds :
    /\ completedIn[x] = r
    /\ lastResponseIdCalls[x] = 1
    /\ pc[r] = "request"
    /\ \E i \in 1..Len(turnInput[r]) : turnInput[r][i].type = "function_call_output"
    /\ lastResponseId[r] = x

\* the on_item calls that delivered a staged slot of run r
SlotsOf(r) == {k \in 1..Len(delivered) : delivered[k].run = r /\ delivered[k].slot # 0}

\* C18: the staged items of a run are delivered in the order the run staged
\* them: of two deliveries of one run the later one is of the slot staged
\* later, whether the slots were staged in one loop iteration or in two.
C18_DeliveryInStagingOrder ==
  \A r \in Runs : \A k1, k2 \in SlotsOf(r) :
     (k1 < k2) => (delivered[k1].slot < delivered[k2].slot)

\* C18 happens: a run has delivered its user input, the tool call of the
\* first response and the tool's output staged in its second iteration.
C18_Witness ==
  \E r \in Runs : \E k1, k2, k3 \in SlotsOf(r) :
    /\ k1 < k2 /\ k2 < k3
    /\ delivered[k1].item.type = "input"
    /\ delivered[k2].item.type = "function_call"
    /\ delivered[k3].item.type = "function_call_output"

\* what each handleFunctionCall returned, one list after the other
RECURSIVE ReturnedInOrder(_)
ReturnedInOrder(rets) ==
  IF rets = <<>> THEN <<>> ELSE Head(rets).result \o ReturnedInOrder(Tail(rets))

\* C19: a function call handled while the run is not cancelled returns a
\* non-empty list that starts with the function_call_output of the call's id
\* (call_id, or id when there is none), whatever its arguments and its tool
\* name, with the exec path's additional items after it; the lists of
\* successive calls make up the turn input in call order.
C19_OutputAnswersCall ==
  /\ \A k \in 1..Len(callReturns) :
       LET e == callReturns[k] IN
       ~e.canceled =>
          /\ e.result # <<>>
          /\ e.result[1].type = "function_call_output"
          /\ e.result[1].call_id = CallIdOf(e.item)
          /\ \A i \in 2..Len(e.result) : e.result[i].type # "function_call_output"
  /\ callTurnInput = ReturnedInOrder(callReturns)

\* C19 happens: a chat-style call with malformed arguments was handled while
\* the run was not cancelled.
C19_Witness ==
  \E k \in 1..Len(callReturns) :
     /\ ~callReturns[k].canceled
     /\ callReturns[k].item.chat
     /\ ~callReturns[k].item.argsOk

\* the classifier approved the command for a run outside the sandbox
UnsandboxedApproval == assessment.type = "auto-approve" /\ ~assessment.runInSandbox

\* the script has a redirection operator
HasRedirection(script) == \E i \in 1..Len(script) : script[i] \in {">", "<"}

\* the script has a grouping token: a parenthesis, or a brace that is a word
HasGroupingToken(script) ==
  \E i \in 1..Len(script) :
     \/ script[i] \in {"(", ")"}
     \/ /\ script[i] \in {"{", "}"}
        /\ (i = 1 \/ script[i - 1] \notin WordAtoms)
        /\ (i = Len(script) \/ script[i + 1] \notin WordAtoms)

\* an unsandboxed approval without a patch is of an allowlisted argv or of a
\* `bash -lc` script that parses to a safe composition
ApprovedIsSafe ==
  (UnsandboxedApproval /\ ~assessment.applyPatch) =>
     \/ isSafeCommand(command) # Null
     \/ IsBashLc(command) /\ isEntireShellExpressionSafe(parse(command[3])) # Null

Inside(root, resolved) ==
  Len(resolved) > Len(root) /\ SubSeq(resolved, 1, Len(root)) = root

\* the files of the patch whose resolved path lies inside no writable root
OutsideFiles ==
  {i \in 1..Len(patchFiles) :
      \A root \in writableRoots : ~Inside(root, PathResolve(patchFiles[i].path))}

\* C21: a patch approved for a run outside the sandbox names only paths that
\* resolve inside a writable root; a patch with a path outside every root is
\* ask-user under auto-edit and approved for the sandbox under full-auto.
C21_PatchInsideRoots ==
  (assessment.type # "none" /\ assessment.applyPatch) =>
     /\ UnsandboxedApproval => (OutsideFiles = {})
     /\ (OutsideFiles # {} /\ policy = "auto-edit") => (assessment.type = "ask-user")
     /\ (OutsideFiles # {} /\ policy = "full-auto") =>
           (assessment.type = "auto-approve" /\ assessment.runInSandbox)

\* C21 happens: a patch with one file inside a root, reached through a ..
\* segment, and one added file was approved unsandboxed under auto-edit.
C21_Witness ==
  /\ policy = "auto-edit"
  /\ UnsandboxedApproval
  /\ assessment.applyPatch
  /\ Len(patchFiles) = 2
  /\ \E i \in 1..2 : ".." \in {patchFiles[i].path.segs[k] : k \in 1..Len(patchFiles[i].path.segs)}
  /\ \E i \in 1..2 : patchFiles[i].kind = "added"

\* C22: under suggest a patch is ask-user and carries the patch, given as
\* [apply_patch, <blob>] or under bash -lc with a heredoc, whatever its paths
\* and the writable roots.
C22_SuggestAsksForPatch ==
  (assessment.type # "none" /\ policy = "suggest") =>
     /\ assessment.type = "ask-user"
     /\ assessment.applyPatch
     /\ assessment.patch = Str("patch")

\* C22 happens: under suggest a heredoc patch whose files all lie inside the
\* writable roots was assessed.
C22_Witness ==
  /\ policy = "suggest"
  /\ assessment.type = "ask-user"
  /\ IsBashLc(command)
  /\ HeredocMatch(Tail(command[3])).matched
  /\ patchFiles # <<>>
  /\ patchConstrained

\* the approval rests on the allowlist, on a safe composition or on a patch
\* confined to the writable roots
Justified ==
  \/ isSafeCommand(command) # Null
  \/ IsBashLc(command) /\ isEntireShellExpressionSafe(parse(command[3])) # Null
  \/ assessment.applyPatch /\ patchConstrained

\* C23: under full-auto every command is auto-approved, never ask-user or
\* reject, and an approval that is not justified is for the sandbox.
C23_FullAutoApprovesAll ==
  (assessment.type # "none" /\ policy = "full-auto") =>
     /\ assessment.type = "auto-approve"
     /\ ~Justified => assessment.runInSandbox

\* C23 happens: under full-auto an apply_patch command without its patch
\* argument was assessed.
C23_Witness ==
  /\ policy = "full-auto"
  /\ assessment.type # "none"
  /\ command = <<Str("apply_patch")>>

\* the promise was settled by a failure: no program to run, or an error event
SettledByFailure == settledBy \in {"argv", "error"}

\* C24: exec never fails with an error: called with the raw executor it
\* returns a promise (it does not throw), and a promise settled by a failure
\* resolves to a nonzero exit code with the diagnostic in stderr.
C24_ExecNeverFails ==
  (launched = "rawExec") =>
     /\ promise \in {"pending", "resolved"}
     /\ SettledByFailure =>
          (promise = "resolved" /\ execResult.exitCode # 0 /\ execResult.message # "")

\* C24 happens: spawn threw inside exec.
C24_Witness ==
  /\ launched = "rawExec"
  /\ promise = "threw"

\* C25: per stream, the bytes kept and the bytes in the ExecResult never
\* exceed MAX_BUFFER; a stream that had produced at most MAX_BUFFER bytes when
\* the exit event settled the promise is delivered in full; the chunk that
\* takes the running total over the cap and every later chunk of that stream
\* are dropped; a data event of one stream leaves the other stream's state alone.
C25_OutputCapped ==
  /\ [](/\ stdoutChunks <= MAX_BUFFER
        /\ stderrChunks <= MAX_BUFFER
        /\ execResult.stdout <= MAX_BUFFER
        /\ execResult.stderr <= MAX_BUFFER
        /\ hitMaxStdout <=> (numStdoutBytes > MAX_BUFFER)
        /\ hitMaxStderr <=> (numStderrBytes > MAX_BUFFER)
        /\ (settledBy = "exit" /\ stdoutSeen <= MAX_BUFFER) => execResult.stdout = stdoutSeen
        /\ (settledBy = "exit" /\ stderrSeen <= MAX_BUFFER) => execResult.stderr = stderrSeen)
  /\ [][/\ hitMaxStdout' => stdoutChunks' = stdoutChunks
        /\ hitMaxStderr' => stderrChunks' = stderrChunks
        /\ hitMaxStdout => hitMaxStdout'
        /\ hitMaxStderr => hitMaxStderr'
        /\ (numStdoutBytes' # numStdoutBytes) =>
              UNCHANGED <<numStderrBytes, hitMaxStderr, stderrChunks>>
        /\ (numStderrBytes' # numStderrBytes) =>
              UNCHANGED <<numStdoutBytes, hitMaxStdout, stdoutChunks>>]_vars

\* C25 happens: stdout produced exactly MAX_BUFFER bytes and all of them are
\* in the result, while stderr went over the cap.
C25_Witness ==
  /\ settledBy = "exit"
  /\ stdoutSeen = MAX_BUFFER
  /\ execResult.stdout = MAX_BUFFER
  /\ hitMaxStderr
  /\ execResult.stderr = 0

\* C26: when the exit event settles the promise, the exit code is the child's
\* code when there is one (0 included), else 128 + the number of the signal
\* when the signal is a known one, else 1.
C26_ExitCodeMapping ==
  settledBy = "exit" =>
     /\ exited
     /\ exitEvent.code # <<>> => execResult.exitCode = exitEvent.code[1]
     /\ (exitEvent.code = <<>> /\ exitEvent.signal = <<"SIGTERM">>) =>
           execResult.exitCode = 128 + 15
     /\ (exitEvent.code = <<>> /\ exitEvent.signal = <<"SIGKILL">>) =>
           execResult.exitCode = 128 + 9
     /\ (exitEvent.code = <<>> /\ exitEvent.signal \notin {<<"SIGTERM">>, <<"SIGKILL">>}) =>
           execResult.exitCode = 1

\* C26 happens: a child with exit code 0 and a child ended by SIGKILL.
C26_Witness ==
  /\ settledBy = "exit"
  /\ \/ exitEvent.code = <<0>> /\ execResult.exitCode = 0
     \/ exitEvent = [code |-> <<>>, signal |-> <<"SIGKILL">>] /\ execResult.exitCode = 137

\* C27: once the signal of a spawned child is aborted, the first signal is
\* SIGTERM to the process group, at the time of the abort; a SIGKILL is sent
\* no sooner than KILL_GRACE_MS after it; a signal goes to the child itself
\* exactly when the same signal to the group has just failed; nothing is
\* signalled before the abort.
C27_TermThenKill ==
  /\ abortSignal # "aborted" => signals = <<>>
  /\ (abortSignal = "aborted" /\ pid # 0) =>
        /\ signals # <<>>
        /\ signals[1].signal = "SIGTERM"
        /\ signals[1].target = "group"
        /\ signals[1].at = abortedAt
  /\ \A i \in DOMAIN signals :
        /\ signals[i].signal = "SIGKILL" => signals[i].at >= abortedAt + 2000
        /\ signals[i].signal = "SIGTERM" => signals[i].at = abortedAt
        /\ signals[i].target = "child" =>
              /\ i > 1
              /\ signals[i - 1].target = "group"
              /\ ~signals[i - 1].ok
              /\ signals[i - 1].signal = signals[i].signal
        /\ (signals[i].target = "group" /\ ~signals[i].ok) =>
              /\ i < Len(signals)
              /\ signals[i + 1].target = "child"
              /\ signals[i + 1].signal = signals[i].signal

\* C27 happens: SIGTERM could not be sent to the group and went to the child,
\* and SIGKILL followed.
C27_Witness ==
  /\ Len(signals) >= 3
  /\ signals[2].target = "child"
  /\ signals[2].signal = "SIGTERM"
  /\ signals[3].signal = "SIGKILL"

\* C28: a call that selects a platform sandbox is never run by the raw
\* executor.
C28_SandboxNeverRaw ==
  (launched # "none" /\ execSandbox # "none") => launched # "rawExec"

\* C28 happens: the caller selected Linux Landlock and the raw executor
\* spawned the child.
C28_Witness ==
  /\ execSandbox = "linux.landlock"
  /\ launched = "rawExec"
  /\ pid # 0

\* the last review getCommandConfirmation returned ("" when none yet)
LastReview == IF reviews = <<>> THEN "" ELSE reviews[Len(reviews)]

\* C29: an ask-user command is run only after the approval callback answered
\* YES or YES_ALWAYS, and then outside the sandbox; after NO_CONTINUE it is not
\* run and the output carries the deny message with exit code 1; with the
\* quiet-mode callback it is never run; after NO_EXIT it is not run and the
\* call ends as a cancellation.
C29_AskUserNeedsYes ==
  classified.type = "ask-user" =>
     /\ executed # <<>> =>
          /\ LastReview \in {"YES", "YES_ALWAYS"}
          /\ Len(executed) = 1
          /\ ~executed[1].sandboxed
     /\ LastReview = "NO_CONTINUE" =>
          /\ executed = <<>>
          /\ handlerPc = "done"
          /\ outputText.kind = "deny"
          /\ outputText.exit_code = 1
     /\ confirmMode = "quiet" =>
          /\ executed = <<>>
          /\ \A i \in DOMAIN reviews : reviews[i] = "NO_CONTINUE"
     /\ LastReview = "NO_EXIT" =>
          /\ executed = <<>>
          /\ handlerPc = "cancelled"

\* C29 happens: in quiet mode an ask-user command was denied and not run.
C29_Witness ==
  /\ classified.type = "ask-user"
  /\ confirmMode = "quiet"
  /\ reviews = <<"NO_CONTINUE">>
  /\ handlerPc = "done"
  /\ outputText.kind = "deny"
  /\ executed = <<>>

\* C30: execApplyPatch never throws; when the patch applied its result has
\* exit code 0, the summary in stdout and an empty stderr; when the engine
\* failed it has exit code 1, an empty stdout and the diagnostic in stderr,
\* and the call returns an output with that diagnostic and exit code 1.
C30_PatchNeverThrows ==
  /\ ~patchResult.threw
  /\ handlerPc # "threw"
  /\ patchOutcome = "applied" =>
        /\ patchResult.exitCode = 0
        /\ patchResult.stdout = "summary"
        /\ patchResult.stderr = ""
  /\ patchOutcome \in {"throws Error", "throws value"} =>
        /\ patchResult.exitCode = 1
        /\ patchResult.stdout = ""
        /\ patchResult.stderr # ""
        /\ handlerPc = "done"
        /\ outputText.kind = "result"
        /\ outputText.text = patchResult.stderr
        /\ outputText.exit_code = 1

\* C30 happens: the patch engine threw while an approved patch was applied.
C30_Witness ==
  /\ patchOutcome = "throws Error"
  /\ patchResult.exitCode = 1
  /\ handlerPc = "done"

\* the operations before the j-th that name path p
TouchesBefore(j, p) == {i \in 1..(j - 1) : i <= Len(engineOps) /\ engineOps[i].path = p}

\* the content of p once the operations before the j-th have been applied
\* to the files the call started with
ContentBefore(j, p) ==
  IF TouchesBefore(j, p) = {} THEN engineBefore[p]
  ELSE LET i == CHOOSE x \in TouchesBefore(j, p) : \A y \in TouchesBefore(j, p) : y <= x
       IN IF engineOps[i].kind = "Add" THEN "added"
          ELSE IF engineOps[i].kind = "Delete" THEN Absent ELSE "updated"

\* the number of operations that were applied
AppliedOps == IF engineFailedAt = 0 THEN Len(engineOps) ELSE engineFailedAt - 1

\* C31: process_patch applies the operations in declaration order and does
\* not roll back: after the call the files are those the operations before
\* the failing one leave, each of them having met its condition in turn (an
\* Add found no target, a Delete and an Update found one); the failing
\* operation did not meet its own (an Add on a target that exists, a Delete
\* on one that does not), and it and the later ones changed nothing.
C31_InOrderNoRollback ==
  engineStatus # "idle" =>
     /\ (engineStatus = "failed") <=> (engineFailedAt # 0)
     /\ engineFailedAt \in 0..Len(engineOps)
     /\ \A p \in EnginePaths : engineFiles[p] = ContentBefore(AppliedOps + 1, p)
     /\ \A j \in 1..AppliedOps :
          LET op == engineOps[j] IN
          /\ op.kind = "Add" => ContentBefore(j, op.path) = Absent
          /\ op.kind = "Delete" => ContentBefore(j, op.path) # Absent
          /\ op.kind = "Update" => (ContentBefore(j, op.path) # Absent /\ op.hunksMatch)
     /\ engineFailedAt # 0 =>
          LET op == engineOps[engineFailedAt] IN
          /\ op.kind = "Add" => ContentBefore(engineFailedAt, op.path) # Absent
          /\ op.kind = "Delete" => ContentBefore(engineFailedAt, op.path) = Absent
          /\ op.kind = "Update" =>
                (ContentBefore(engineFailedAt, op.path) = Absent \/ ~op.hunksMatch)

\* C31 happens: the second of three operations failed, the file the first
\* one added is there and the third one was not applied.
C31_Witness ==
  /\ engineStatus = "failed"
  /\ engineFailedAt = 2
  /\ Len(engineOps) = 3
  /\ engineOps[1].kind = "Add"
  /\ engineFiles[engineOps[1].path] = "added"
  /\ engineOps[3].kind = "Delete"
  /\ engineOps[3].path # engineOps[1].path
  /\ engineFiles[engineOps[3].path] = "old"

\* C32: a cancel() on an instance that is not terminated reports the empty
\* id when pendingAborts is empty and leaves the reported id alone when it is
\* not; either way it leaves pendingAborts alone, sets canceled, adds one to
\* generation and emits on_loading(false).
C32_CancelFrame ==
  [][(ncancel' = ncancel + 1) =>
        /\ (pendingAborts = {}) => (uiLastResponseId' = 0)
        /\ (pendingAborts # {}) => (uiLastResponseId' = uiLastResponseId)
        /\ pendingAborts' = pendingAborts
        /\ canceled'
        /\ generation' = generation + 1
        /\ loading' = FALSE]_vars

\* C32 happens: cancel() was called with a call-id pending and the reported
\* response id is still there.
C32_Witness ==
  /\ ncancel = 1
  /\ canceled
  /\ generation = 2
  /\ pendingAborts # {}
  /\ uiLastResponseId # 0
  /\ ~loading

\* the step in which run r leaves an exhausted stream and is back at the
\* condition of `while (turnInput.length > 0)` (865, 933-942, 593)
EndsTurn(r) ==
  /\ pc[r] = "stream"
  /\ streamPhase[r] = "completed"
  /\ streamPhase'[r] = "none"

HasFunctionCall(out) == \E i \in 1..Len(out) : out[i].type = "function_call"

\* every item of ti is the function_call_output of a distinct function call
\* of out
OutputsOfCalls(ti, out) ==
  /\ \A i \in 1..Len(ti) :
        /\ ti[i].type = "function_call_output"
        /\ \E k \in 1..Len(out) : out[k] = FunctionCall(ti[i].id)
  /\ \A i, j \in 1..Len(ti) : ti[i].id = ti[j].id => i = j

ModelOutput(item) == item.type \in {"message", "function_call"}

\* the entries of delivered that a staged slot of run r produced
SlotDeliveries(r) ==
  {i \in 1..Len(delivered) :
     delivered[i].run = r /\ delivered[i].via \in {"timer", "flush"}}

\* C34: within a run each model output item is staged, and so delivered to
\* on_item, at most once, and each staged slot is emitted by its delivery
\* timer or by the flush, never by both.
C34_StagedAtMostOnce ==
  \A r \in Runs :
    /\ \A i, j \in 1..Len(staged[r]) :
          (ModelOutput(staged[r][i].item) /\ staged[r][i].item = staged[r][j].item)
            => i = j
    /\ \A i, j \in SlotDeliveries(r) :
          (ModelOutput(delivered[i].item) /\ delivered[i].item = delivered[j].item)
            => i = j
    /\ \A i, j \in SlotDeliveries(r) :
          delivered[i].slot = delivered[j].slot => i = j

\* one message of one response reaches on_item twice, from two staged slots
C34_Witness ==
  \E r \in Runs : \E i, j \in SlotDeliveries(r) :
    /\ i # j
    /\ delivered[i].item.type = "message"
    /\ delivered[i].item = delivered[j].item
    /\ delivered[i].slot # delivered[j].slot
    /\ ncancel = 0

\* parts[i..j] is a command segment: a longest run of words between operators
IsSegment(parts, i, j) ==
  /\ i <= j
  /\ \A k \in i..j : parts[k].kind = "str"
  /\ i = 1 \/ parts[i - 1].kind = "op"
  /\ j = Len(parts) \/ parts[j + 1].kind = "op"

SegmentArgv(parts, i, j) == [k \in 1..(j - i + 1) |-> parts[i + k - 1].text]

HasSegment(parts) == \E i, j \in 1..Len(parts) : IsSegment(parts, i, j)

\* every command segment passes the read-only allowlist, every operator is
\* one of && || | ; and no word is a grouping token
AllSegmentsSafe(parts) ==
  /\ \A i, j \in 1..Len(parts) :
        IsSegment(parts, i, j) => isSafeCommand(SegmentArgv(parts, i, j)) # Null
  /\ \A k \in 1..Len(parts) :
        /\ parts[k].kind = "op" => parts[k].op \in {"&&", "||", "|", ";"}
        /\ parts[k].kind = "str" =>
              parts[k].text \notin {Str("("), Str(")"), Str("{"), Str("}")}

\* the classifier was called on a `bash -lc` script that is not a patch and
\* that parse accepted
ParsedScript ==
  /\ assessment # NoAssessment
  /\ IsBashLc(command)
  /\ ~tryParseApplyPatch(command[3]).found
  /\ ~parseThrew

\* the script was approved as a safe composition: outside the sandbox
ClassifiedSafe ==
  /\ assessment.type = "auto-approve"
  /\ ~assessment.runInSandbox
  /\ ~assessment.applyPatch

C36_WithinIffDescendant ==
  (assessment # NoAssessment /\ assessment.applyPatch) =>
    /\ \A i \in 1..Len(patchFiles) : \A root \in writableRoots :
          pathContains(root, PathResolve(patchFiles[i].path))
            <=> Inside(root, PathResolve(patchFiles[i].path))
    /\ patchConstrained <=> (OutsideFiles = {})

\* a patch that adds the file ..x below the writable root /w was assessed
\* and found not confined
C36_Witness ==
  /\ assessment # NoAssessment
  /\ assessment.applyPatch
  /\ writableRoots = {Cwd}
  /\ patchFiles = <<[kind |-> "added", path |-> Path(FALSE, <<"..x">>)]>>
  /\ PathResolve(patchFiles[1].path) = <<"w", "..x">>
  /\ ~patchConstrained

\* C37: every run() that has emitted on_loading(true) eventually emits
\* on_loading(false), whichever way it exits.
C37_LoadingEventuallyFalse ==
  \A r \in Runs : (loadTrue[r] > 0) ~> (loadFalse[r] > 0)

\* a run() that had emitted on_loading(true) rethrew an error to its caller
\* and emitted no on_loading(false); the UI still shows loading
C37_Witness ==
  \E r \in Runs :
    /\ pc[r] = "thrown"
    /\ loadTrue[r] = 1
    /\ loadFalse[r] = 0
    /\ loading
    /\ ncancel = 0
    /\ ~terminated

\* C38: SIGTERM or SIGKILL is sent only to a child that has not yet exited:
\* once the exit event was observed, neither a later abort of the signal nor
\* the expiry of the grace timer sends anything to its pid or process group.
C38_NoSignalAfterExit ==
  [][(signals' # signals) => ~exited]_vars

\* the child exited on its own, the signal was aborted afterwards, and
\* SIGTERM went to the process group of the pid that had exited
C38_Witness ==
  /\ exited
  /\ settledBy = "exit"
  /\ exitEvent = [code |-> <<0>>, signal |-> <<>>]
  /\ abortSignal = "aborted"
  /\ lateSignals
  /\ Len(signals) = 2
  /\ signals[1] = SignalSent("SIGTERM", "group", TRUE, 0)
  /\ signals[2] = SignalSent("SIGKILL", "group", TRUE, KILL_GRACE_MS)

\* C39: after cancel() has reported the empty id (pendingAborts was empty),
\* no run that was started before that cancel() reports a response id, and
\* the next run() starts without a previous response id.
C39_NoIdAfterClear ==
  /\ [][(uiLastResponseId' # uiLastResponseId /\ uiLastResponseId' # 0) =>
          completedIn'[uiLastResponseId'] >= clearedAt]_vars
  /\ [][\A r \in Runs :
          (pc[r] = "idle" /\ pc'[r] = "request" /\ clearedAt = r) =>
             lastResponseId'[r] = 0]_vars

\* cancel() cleared the id while the first run was reading its stream; the
\* stream went on, its response.completed reported its id, and the second
\* run() was started with that id
C39_Witness ==
  /\ ncancel = 1
  /\ clearedAt = 2
  /\ completedIn[1] = 1
  /\ lastResponseIdCalls[1] = 1
  /\ uiLastResponseId = 1
  /\ pc[2] = "request"
  /\ lastResponseId[2] = 1

\* C40: after every sequence of key events the cursor offset stays within the
\* value: 0 <= cursorOffset <= value.length.
C40_CursorInRange ==
  /\ 0 <= cursorOffset
  /\ cursorOffset <= Len(value)

\* the cursor was moved left of the first character of a non-empty value
C40_Witness ==
  /\ value # <<>>
  /\ cursorOffset = -1

====
